---------------------------- MODULE Spec2Model ----------------------------
(***************************************************************************)
(* A model of generate_mock_data.py: the batch that reads the EdX course   *)
(* table, classifies every row (detect_category, detect_subcategories,     *)
(* skill), synthesises content titles (generate_content_titles: the remote *)
(* GLM call with the rule-based fallback), stamps the row and writes       *)
(* COURSE_CATALOG.csv.                                                     *)
(*                                                                         *)
(* Texts are TLA+ strings over ASCII; "in", lower(), split(), strip() and  *)
(* title() are computed character by character as Python computes them.    *)
(***************************************************************************)
EXTENDS Integers, Sequences, FiniteSets, TLC

-----------------------------------------------------------------------------
(* Python's str operations, on ASCII strings.                              *)

Lowercase == "abcdefghijklmnopqrstuvwxyz"

Uppercase == "ABCDEFGHIJKLMNOPQRSTUVWXYZ"

CharAt(s, i) == SubSeq(s, i, i)

Chars(s) == {CharAt(s, i) : i \in 1..Len(s)}

\* c.lower() and c.upper() of one character, as tables.
LowerOf == [c \in Chars(Uppercase) |->
              CharAt(Lowercase, CHOOSE i \in 1..Len(Uppercase) : CharAt(Uppercase, i) = c)]

UpperOf == [c \in Chars(Lowercase) |->
              CharAt(Uppercase, CHOOSE i \in 1..Len(Lowercase) : CharAt(Lowercase, i) = c)]

LowerChar(c) == IF c \in DOMAIN LowerOf THEN LowerOf[c] ELSE c

UpperChar(c) == IF c \in DOMAIN UpperOf THEN UpperOf[c] ELSE c

IsLetter(c) == c \in DOMAIN LowerOf \/ c \in DOMAIN UpperOf

\* The characters str.strip() and str.split() treat as white space.
Whitespace == {" ", "\t", "\n", "\r", "\f"}

RECURSIVE LowerFrom(_, _)
LowerFrom(s, i) ==
  IF i > Len(s) THEN "" ELSE LowerChar(CharAt(s, i)) \o LowerFrom(s, i + 1)

\* s.lower()
lower(s) == LowerFrom(s, 1)

\* k in s: k occurs in s as a substring (the empty string occurs in every string).
Contains(s, k) ==
  \E i \in 1..(Len(s) - Len(k) + 1) : SubSeq(s, i, i + Len(k) - 1) = k

\* s.startswith(p)
StartsWith(s, p) == Len(p) <= Len(s) /\ SubSeq(s, 1, Len(p)) = p

RECURSIVE SplitFrom(_, _, _)
SplitFrom(s, i, word) ==
  IF i > Len(s)
    THEN IF word = "" THEN <<>> ELSE <<word>>
    ELSE IF CharAt(s, i) \in Whitespace
           THEN (IF word = "" THEN <<>> ELSE <<word>>) \o SplitFrom(s, i + 1, "")
           ELSE SplitFrom(s, i + 1, word \o CharAt(s, i))

\* s.split(): the words of s between runs of white space.
split(s) == SplitFrom(s, 1, "")

RECURSIVE SplitOnFrom(_, _, _, _)
SplitOnFrom(s, sep, i, piece) ==
  IF i > Len(s)
    THEN <<piece>>
    ELSE IF CharAt(s, i) = sep
           THEN <<piece>> \o SplitOnFrom(s, sep, i + 1, "")
           ELSE SplitOnFrom(s, sep, i + 1, piece \o CharAt(s, i))

\* s.split(sep) for a one-character separator: empty pieces are kept.
split_on(s, sep) == SplitOnFrom(s, sep, 1, "")

\* s.strip(): s without its leading and trailing white space.
strip(s) ==
  LET inside == {i \in 1..Len(s) : CharAt(s, i) \notin Whitespace}
  IN  IF inside = {} THEN ""
      ELSE SubSeq(s, CHOOSE i \in inside : \A j \in inside : i <= j,
                     CHOOSE i \in inside : \A j \in inside : i >= j)

RECURSIVE TitleFrom(_, _, _)
TitleFrom(s, i, inWord) ==
  IF i > Len(s) THEN ""
  ELSE LET c == CharAt(s, i)
       IN  (IF inWord THEN LowerChar(c) ELSE UpperChar(c))
             \o TitleFrom(s, i + 1, IsLetter(c))

\* s.title(): every letter that follows a non-letter in upper case, the others in
\* lower case.
title(s) == TitleFrom(s, 1, FALSE)

\* d.get(k, default) of a dict kept as the sequence of its (key, value) entries.
DictGet(d, k, default) ==
  IF \E i \in 1..Len(d) : d[i].key = k
    THEN d[CHOOSE i \in 1..Len(d) : d[i].key = k].value
    ELSE default

\* F applied to the value of e. TLC evaluates an operator's argument anew at every use
\* of the parameter; through With it is evaluated once.
With(e, F(_)) == CHOOSE y \in {F(x) : x \in {e}} : TRUE

RECURSIVE SumTo(_, _)
SumTo(f, n) == IF n = 0 THEN 0 ELSE f[n] + SumTo(f, n - 1)

\* The sum of a sequence of numbers.
Sum(f) == SumTo(f, Len(f))

-----------------------------------------------------------------------------
(* The static tables of the program.                                       *)

\* +3 for a skill name found in the text.
ExactMatchScore == 3

\* A word of a skill name counts only when longer than this.
MinWordLen == 3

\* At most this many subtopics are written into a template.
MaxSubtopics == 4

\* templates[:5]
TemplateTitlesCap == 5

\* content_data["titles"][:5]
RemoteTitlesCap == 5

\* The loop over the lines stops at 5 titles.
ExtractedTitlesCap == 5

\* ulid[:8]
IdPrefixLen == 8

\* The category registry: id, name and skills in declared order.
categories ==
  << [id |-> "cat001", name |-> "Computer Science",
      skills |-> <<"Programming", "Algorithms", "Data Structures",
                  "Software Engineering", "Computer Science", "Python", "JavaScript",
                  "Web Development">>],
     [id |-> "cat002", name |-> "Business & Management",
      skills |-> <<"Leadership", "Project Management", "Marketing", "Finance",
                  "Management", "Business", "Strategy", "Organizational Behavior">>],
     [id |-> "cat003", name |-> "Data Analysis & Statistics",
      skills |-> <<"Data Analysis", "Statistics", "Machine Learning",
                  "Data Visualization", "Analytics", "Data Science", "R", "Big Data">>],
     [id |-> "cat004", name |-> "Education & Teacher Training",
      skills |-> <<"Teaching", "Curriculum Design", "Educational Technology",
                  "Assessment", "Education", "Learning", "Training",
                  "Instructional Design">>],
     [id |-> "cat005", name |-> "Health & Safety",
      skills |-> <<"Public Health", "Mental Health", "Safety", "Wellness", "Health",
                  "Psychology", "Medicine", "Healthcare">>],
     [id |-> "cat006", name |-> "Communication",
      skills |-> <<"Public Speaking", "Writing", "Interpersonal Communication",
                  "Digital Communication", "Communication", "Presentation",
                  "Negotiation", "Media">>],
     [id |-> "cat007", name |-> "Humanities",
      skills |-> <<"History", "Philosophy", "Literature", "Art", "Culture", "Society",
                  "Ethics", "Critical Thinking">>],
     [id |-> "cat008", name |-> "Science",
      skills |-> <<"Biology", "Chemistry", "Physics", "Environmental Science",
                  "Research", "Mathematics", "Engineering", "Scientific Method">>] >>

\* Subcategories with their keywords, per category name, in declared order.
sub_categories ==
  << [key |-> "Computer Science",
      value |->
       << [name |-> "Programming Fundamentals",
           keywords |-> <<"programming", "coding", "variables", "loops", "functions",
                         "basics">>],
          [name |-> "Algorithms & Data Structures",
           keywords |-> <<"algorithm", "data structure", "efficiency", "optimization",
                         "sorting">>],
          [name |-> "Web Development",
           keywords |-> <<"web", "html", "css", "javascript", "frontend", "backend">>],
          [name |-> "Software Engineering",
           keywords |-> <<"software engineering", "development lifecycle", "testing",
                         "debugging", "version control">>],
          [name |-> "Computer Architecture",
           keywords |-> <<"computer architecture", "hardware", "systems", "low-level",
                         "assembly">>],
          [name |-> "Introduction",
           keywords |-> <<"intro", "introduction", "beginner", "basic",
                         "getting started">>] >>],
     [key |-> "Business & Management",
      value |->
       << [name |-> "Leadership",
           keywords |-> <<"leadership", "leading", "managing teams", "influence",
                         "motivation">>],
          [name |-> "Project Management",
           keywords |-> <<"project management", "planning", "execution", "milestones",
                         "timeline">>],
          [name |-> "Marketing",
           keywords |-> <<"marketing", "promotion", "branding", "customer acquisition",
                         "market research">>],
          [name |-> "Finance",
           keywords |-> <<"finance", "financial", "budgeting", "investment",
                         "accounting">>],
          [name |-> "Strategy",
           keywords |-> <<"strategy", "strategic planning", "competitive advantage",
                         "business model">>],
          [name |-> "Introduction",
           keywords |-> <<"intro", "introduction", "beginner", "basic",
                         "getting started">>] >>],
     [key |-> "Data Analysis & Statistics",
      value |->
       << [name |-> "Statistical Analysis",
           keywords |-> <<"statistics", "statistical", "probability", "distribution",
                         "hypothesis testing">>],
          [name |-> "Machine Learning",
           keywords |-> <<"machine learning", "ml", "prediction", "classification",
                         "regression", "clustering">>],
          [name |-> "Data Visualization",
           keywords |-> <<"visualization", "charts", "graphs", "dashboard",
                         "presentation">>],
          [name |-> "Data Processing",
           keywords |-> <<"data processing", "cleaning", "transformation", "wrangling",
                         "preprocessing">>],
          [name |-> "Big Data",
           keywords |-> <<"big data", "large scale", "distributed computing", "hadoop",
                         "spark">>],
          [name |-> "Introduction",
           keywords |-> <<"intro", "introduction", "beginner", "basic",
                         "getting started">>] >>],
     [key |-> "Education & Teacher Training",
      value |->
       << [name |-> "Teaching Methods",
           keywords |-> <<"teaching", "instruction", "pedagogy", "lesson planning",
                         "classroom">>],
          [name |-> "Educational Technology",
           keywords |-> <<"educational technology", "edtech", "digital learning",
                         "online education">>],
          [name |-> "Assessment",
           keywords |-> <<"assessment", "evaluation", "testing", "feedback", "grading">>],
          [name |-> "Curriculum Design",
           keywords |-> <<"curriculum", "syllabus", "course design",
                         "learning objectives">>],
          [name |-> "Learning Theory",
           keywords |-> <<"learning theory", "educational psychology", "cognition",
                         "knowledge acquisition">>],
          [name |-> "Introduction",
           keywords |-> <<"intro", "introduction", "beginner", "basic",
                         "getting started">>] >>],
     [key |-> "Health & Safety",
      value |->
       << [name |-> "Public Health",
           keywords |-> <<"public health", "population health", "epidemiology",
                         "health policy">>],
          [name |-> "Mental Health",
           keywords |-> <<"mental health", "psychology", "wellbeing", "stress",
                         "mindfulness">>],
          [name |-> "Safety",
           keywords |-> <<"safety", "risk assessment", "hazard prevention",
                         "workplace safety">>],
          [name |-> "Healthcare",
           keywords |-> <<"healthcare", "medicine", "clinical", "patient care",
                         "health systems">>],
          [name |-> "Wellness",
           keywords |-> <<"wellness", "health promotion", "lifestyle", "prevention",
                         "self-care">>],
          [name |-> "Introduction",
           keywords |-> <<"intro", "introduction", "beginner", "basic",
                         "getting started">>] >>],
     [key |-> "Communication",
      value |->
       << [name |-> "Public Speaking",
           keywords |-> <<"public speaking", "presentation", "speaking", "audience",
                         "delivery">>],
          [name |-> "Writing",
           keywords |-> <<"writing", "composition", "grammar", "style",
                         "content creation">>],
          [name |-> "Interpersonal Communication",
           keywords |-> <<"interpersonal", "conversation", "listening", "empathy",
                         "relationships">>],
          [name |-> "Digital Communication",
           keywords |-> <<"digital communication", "social media", "online", "virtual",
                         "remote">>],
          [name |-> "Media Studies",
           keywords |-> <<"media", "journalism", "content creation", "broadcasting",
                         "publishing">>],
          [name |-> "Introduction",
           keywords |-> <<"intro", "introduction", "beginner", "basic",
                         "getting started">>] >>],
     [key |-> "Humanities",
      value |->
       << [name |-> "History",
           keywords |-> <<"history", "historical", "past", "civilization", "chronology">>],
          [name |-> "Philosophy",
           keywords |-> <<"philosophy", "philosophical", "ethics", "logic",
                         "metaphysics">>],
          [name |-> "Literature",
           keywords |-> <<"literature", "literary", "fiction", "poetry", "drama">>],
          [name |-> "Art",
           keywords |-> <<"art", "artistic", "aesthetics", "creative expression",
                         "visual arts">>],
          [name |-> "Cultural Studies",
           keywords |-> <<"culture", "cultural", "society", "anthropology",
                         "social studies">>],
          [name |-> "Introduction",
           keywords |-> <<"intro", "introduction", "beginner", "basic",
                         "getting started">>] >>],
     [key |-> "Science",
      value |->
       << [name |-> "Biology",
           keywords |-> <<"biology", "biological", "organism", "ecosystem", "genetics">>],
          [name |-> "Chemistry",
           keywords |-> <<"chemistry", "chemical", "molecular", "reaction", "compounds">>],
          [name |-> "Physics",
           keywords |-> <<"physics", "physical", "energy", "motion", "forces">>],
          [name |-> "Environmental Science",
           keywords |-> <<"environmental", "climate", "sustainability", "ecology",
                         "conservation">>],
          [name |-> "Scientific Method",
           keywords |-> <<"scientific method", "research", "experimentation",
                         "hypothesis", "analysis">>],
          [name |-> "Introduction",
           keywords |-> <<"intro", "introduction", "beginner", "basic",
                         "getting started">>] >>] >>

\* Language keywords, in declared order. The source also lists keywords outside ASCII
\* (Chinese, Japanese and Arabic script, accented Spanish and French); a text over the
\* ASCII alphabet of this model contains none of them, so they are left out.
language_keywords ==
  << [key |-> "chinese", value |-> <<"chinese", "mandarin">>],
     [key |-> "spanish", value |-> <<"spanish">>],
     [key |-> "french", value |-> <<"french">>],
     [key |-> "german", value |-> <<"german", "deutsch">>],
     [key |-> "japanese", value |-> <<"japanese">>],
     [key |-> "arabic", value |-> <<"arabic">>] >>

\* Topic keywords per category name: pairs (keyword, topic), in declared order.
topic_keywords ==
  << [key |-> "Computer Science",
      value |-> <<<<"python", "Python">>, <<"programming", "Programming">>,
                  <<"javascript", "JavaScript">>, <<"java", "Java">>,
                  <<"web development", "Web Development">>,
                  <<"artificial intelligence", "Artificial Intelligence">>,
                  <<"ai", "Artificial Intelligence">>,
                  <<"machine learning", "Machine Learning">>,
                  <<"ml", "Machine Learning">>, <<"deep learning", "Deep Learning">>,
                  <<"data science", "Data Science">>,
                  <<"data structures", "Data Structures">>,
                  <<"algorithms", "Algorithms">>,
                  <<"computer science", "Computer Science">>,
                  <<"cybersecurity", "Cybersecurity">>>>],
     [key |-> "Business & Management",
      value |-> <<<<"marketing", "Marketing">>,
                  <<"project management", "Project Management">>,
                  <<"finance", "Finance">>, <<"accounting", "Accounting">>,
                  <<"leadership", "Leadership">>,
                  <<"entrepreneurship", "Entrepreneurship">>,
                  <<"business", "Business">>>>],
     [key |-> "Data Analysis & Statistics",
      value |-> <<<<"data analysis", "Data Analysis">>, <<"statistics", "Statistics">>,
                  <<"data visualization", "Data Visualization">>,
                  <<"analytics", "Analytics">>>>],
     [key |-> "Education & Teacher Training",
      value |-> <<<<"teaching", "Teaching">>, <<"education", "Education">>,
                  <<"pedagogy", "Pedagogy">>>>],
     [key |-> "Health & Safety",
      value |-> <<<<"health", "Health">>, <<"mental health", "Mental Health">>,
                  <<"safety", "Safety">>, <<"first aid", "First Aid">>,
                  <<"nutrition", "Nutrition">>>>],
     [key |-> "Communication",
      value |-> <<<<"communication", "Communication">>,
                  <<"public speaking", "Public Speaking">>, <<"writing", "Writing">>,
                  <<"journalism", "Journalism">>>>],
     [key |-> "Humanities",
      value |-> <<<<"philosophy", "Philosophy">>, <<"history", "History">>,
                  <<"art", "Art">>, <<"music", "Music">>,
                  <<"literature", "Literature">>, <<"justice", "Justice">>,
                  <<"law", "Law">>, <<"ethics", "Ethics">>>>],
     [key |-> "Science",
      value |-> <<<<"biology", "Biology">>, <<"chemistry", "Chemistry">>,
                  <<"physics", "Physics">>,
                  <<"environmental science", "Environmental Science">>,
                  <<"astronomy", "Astronomy">>, <<"psychology", "Psychology">>>>] >>

\* Subtopic patterns per main topic, in declared order.
subtopic_patterns ==
  << [key |-> "Python",
      value |-> <<"variables", "data types", "control flow", "functions",
                  "object-oriented programming", "modules", "libraries", "debugging">>],
     [key |-> "Programming",
      value |-> <<"variables", "data types", "control structures", "functions",
                  "error handling", "testing", "debugging">>],
     [key |-> "Artificial Intelligence",
      value |-> <<"machine learning", "neural networks", "deep learning",
                  "natural language processing", "computer vision", "ethics">>],
     [key |-> "Web Development",
      value |-> <<"html", "css", "javascript", "responsive design",
                  "backend development", "frontend frameworks">>],
     [key |-> "Data Science",
      value |-> <<"data collection", "data cleaning", "data analysis",
                  "data visualization", "machine learning">>],
     [key |-> "Marketing",
      value |-> <<"market research", "consumer behavior", "digital marketing",
                  "content strategy", "branding">>],
     [key |-> "Finance",
      value |-> <<"financial planning", "investment", "risk management",
                  "financial analysis", "budgeting">>],
     [key |-> "Leadership",
      value |-> <<"team building", "communication", "decision making",
                  "conflict resolution", "motivation">>],
     [key |-> "Data Analysis",
      value |-> <<"data collection", "statistical analysis", "data visualization",
                  "data interpretation", "reporting">>],
     [key |-> "Statistics",
      value |-> <<"probability theory", "statistical inference", "hypothesis testing",
                  "regression analysis", "bayesian statistics">>],
     [key |-> "Teaching",
      value |-> <<"lesson planning", "classroom management", "assessment techniques",
                  "educational psychology", "inclusive teaching">>],
     [key |-> "Health",
      value |-> <<"nutrition", "exercise", "mental wellness", "disease prevention",
                  "healthcare systems">>],
     [key |-> "Communication",
      value |-> <<"verbal communication", "nonverbal communication",
                  "interpersonal skills", "public speaking", "digital communication">>],
     [key |-> "Philosophy",
      value |-> <<"metaphysics", "epistemology", "ethics", "logic",
                  "political philosophy">>],
     [key |-> "History",
      value |-> <<"historical methods", "ancient history", "medieval history",
                  "modern history", "cultural history">>],
     [key |-> "Art",
      value |-> <<"art history", "drawing techniques", "color theory", "art movements",
                  "art appreciation">>],
     [key |-> "Justice",
      value |-> <<"legal systems", "criminal law", "civil law", "international law",
                  "ethics in justice">>],
     [key |-> "Biology",
      value |-> <<"cell biology", "genetics", "evolution", "ecology", "human anatomy">>],
     [key |-> "Chemistry",
      value |-> <<"atomic structure", "chemical bonds", "chemical reactions",
                  "organic chemistry", "biochemistry">>],
     [key |-> "Physics",
      value |-> <<"mechanics", "thermodynamics", "electromagnetism", "quantum physics",
                  "relativity">>],
     [key |-> "chinese",
      value |-> <<"pinyin", "characters", "grammar", "listening", "speaking",
                  "reading", "writing">>],
     [key |-> "spanish",
      value |-> <<"pronunciation", "grammar", "vocabulary", "reading", "writing",
                  "listening", "speaking">>],
     [key |-> "french",
      value |-> <<"pronunciation", "grammar", "vocabulary", "reading", "writing",
                  "listening", "speaking">>],
     [key |-> "german",
      value |-> <<"pronunciation", "grammar", "vocabulary", "reading", "writing",
                  "listening", "speaking">>],
     [key |-> "japanese",
      value |-> <<"hiragana", "katakana", "kanji", "grammar", "vocabulary", "reading",
                  "writing", "listening", "speaking">>],
     [key |-> "arabic",
      value |-> <<"alphabet", "pronunciation", "grammar", "vocabulary", "reading",
                  "writing", "listening", "speaking">>] >>

\* The 5-entry title template of each main topic.
topic_templates ==
  << [key |-> "Python",
      value |-> <<"Introduction to Python", "Python Variables and Data Types",
                  "Python Control Structures", "Python Functions",
                  "Python Object-Oriented Programming">>],
     [key |-> "Programming",
      value |-> <<"Introduction to Programming", "Variables and Data Types",
                  "Control Structures", "Functions and Methods",
                  "Error Handling and Debugging">>],
     [key |-> "Artificial Intelligence",
      value |-> <<"Introduction to Artificial Intelligence",
                  "Machine Learning Fundamentals", "Neural Networks and Deep Learning",
                  "Natural Language Processing", "Computer Vision Applications">>],
     [key |-> "Web Development",
      value |-> <<"HTML and CSS Fundamentals", "JavaScript Essentials",
                  "Responsive Web Design", "Frontend Frameworks",
                  "Backend Development">>],
     [key |-> "Data Science",
      value |-> <<"Introduction to Data Science", "Data Collection and Cleaning",
                  "Statistical Analysis", "Data Visualization",
                  "Machine Learning Applications">>],
     [key |-> "Marketing",
      value |-> <<"Marketing Fundamentals", "Market Research and Analysis",
                  "Consumer Behavior", "Digital Marketing Strategies",
                  "Marketing Campaign Planning">>],
     [key |-> "Finance",
      value |-> <<"Introduction to Finance", "Financial Planning and Analysis",
                  "Investment Strategies", "Risk Management", "Portfolio Management">>],
     [key |-> "Leadership",
      value |-> <<"Leadership Fundamentals", "Team Building and Management",
                  "Effective Communication", "Decision Making and Problem Solving",
                  "Strategic Leadership">>],
     [key |-> "Data Analysis",
      value |-> <<"Introduction to Data Analysis", "Data Collection Methods",
                  "Statistical Analysis Techniques", "Data Visualization",
                  "Data Interpretation and Reporting">>],
     [key |-> "Statistics",
      value |-> <<"Introduction to Statistics", "Probability Theory",
                  "Statistical Inference", "Hypothesis Testing", "Regression Analysis">>],
     [key |-> "Teaching",
      value |-> <<"Introduction to Teaching", "Lesson Planning and Design",
                  "Classroom Management Techniques", "Assessment and Evaluation",
                  "Educational Technology">>],
     [key |-> "Health",
      value |-> <<"Introduction to Health and Wellness", "Nutrition and Diet",
                  "Exercise and Physical Activity",
                  "Mental Health and Stress Management", "Disease Prevention">>],
     [key |-> "Communication",
      value |-> <<"Communication Fundamentals", "Verbal and Nonverbal Communication",
                  "Interpersonal Skills", "Public Speaking", "Digital Communication">>],
     [key |-> "Philosophy",
      value |-> <<"Introduction to Philosoph", "Ethics and Moral Philosoph",
                  "Logic and Critical Thinking", "Metaphysics and Epistemology",
                  "Philosophy of Mind">>],
     [key |-> "History",
      value |-> <<"Introduction to History", "Historical Methods and Research",
                  "World History Overview", "Cultural History",
                  "Historical Analysis and Interpretation">>],
     [key |-> "Art",
      value |-> <<"Introduction to Art", "Art History and Movements",
                  "Drawing Techniques", "Color Theory", "Art Appreciation">>],
     [key |-> "Justice",
      value |-> <<"Introduction to Justice Systems", "Criminal Law", "Civil Law",
                  "International Law", "Ethics in Justice">>],
     [key |-> "Biology",
      value |-> <<"Introduction to Biology", "Cell Biology", "Genetics and Evolution",
                  "Ecology and Ecosystems", "Human Biology">>],
     [key |-> "Chemistry",
      value |-> <<"Introduction to Chemistry", "Atomic Structure and Periodic Table",
                  "Chemical Bonds and Reactions", "Organic Chemistry", "Biochemistry">>],
     [key |-> "Physics",
      value |-> <<"Introduction to Physics", "Mechanics", "Thermodynamics",
                  "Electromagnetism", "Quantum Physics">>],
     [key |-> "chinese",
      value |-> <<"Introduction to Mandarin Chinese", "Pinyin and Pronunciation",
                  "Chinese Characters and Writing",
                  "Basic Grammar and Sentence Structure",
                  "Everyday Conversation Practice">>],
     [key |-> "spanish",
      value |-> <<"Introduction to Spanish", "Spanish Pronunciation",
                  "Basic Spanish Grammar", "Vocabulary Building",
                  "Conversation Practice">>],
     [key |-> "french",
      value |-> <<"Introduction to French", "French Pronunciation",
                  "Basic French Grammar", "Vocabulary Building",
                  "Conversation Practice">>],
     [key |-> "german",
      value |-> <<"Introduction to German", "German Pronunciation",
                  "Basic German Grammar", "Vocabulary Building",
                  "Conversation Practice">>],
     [key |-> "japanese",
      value |-> <<"Introduction to Japanese", "Hiragana and Katakana",
                  "Basic Japanese Grammar", "Kanji and Vocabulary Building",
                  "Conversation Practice">>],
     [key |-> "arabic",
      value |-> <<"Introduction to Arabic", "Arabic Alphabet and Pronunciation",
                  "Basic Arabic Grammar", "Vocabulary Building",
                  "Conversation Practice">>] >>

\* The columns of the output table, in order.
output_columns ==
  <<"id", "lessontitle", "contentTitle", "skillName", "level", "categoryId", "catName",
    "subCatName", "coverImageId", "previewVideoId", "createdAt", "updatedAt",
    "deletedAt", "status", "shortDescription", "description", "university", "link">>

-----------------------------------------------------------------------------
(* The state.                                                              *)

VARIABLES
  csv,           \* the input file ./EdX.csv: whether it exists, and its rows
  environ,       \* the environment variable GLM_API_KEY
  secret_file,   \* the file .env/GLM_API_KEY.env
  service,       \* the answers the remote service can give in this run
  pc,            \* where generate_mock_data is
  df,            \* the rows read
  index,         \* the number of rows done
  current_time,  \* datetime.now(thailand_tz), taken once before the loop
  cur,           \* the locals of the loop body for the row at hand
  output_df,     \* the output table: its columns and its rows, each a list of values
  catalog,       \* the output file ./COURSE_CATALOG.csv
  writes,        \* how many times the output file was written
  tpc,           \* where generate_content_titles is
  call,          \* its arguments
  api_key,       \* the key it found
  response,      \* the answer of the remote service to its request
  ret,           \* what it returned or raised
  requests,      \* how many requests were posted to the remote service
  local_templates
                 \* the dict of the local topic_templates of
                 \* generate_titles_for_topic, as its latest call left it

vars ==
  <<csv, environ, secret_file, service, pc, df, index, current_time, cur, output_df,
    catalog, writes, tpc, call, api_key, response, ret, requests, local_templates>>

world == <<csv, environ, secret_file, service>>

batch == <<pc, df, index, current_time, cur, output_df, catalog, writes>>

titles_call == <<tpc, call, api_key, response, ret, requests, local_templates>>

-----------------------------------------------------------------------------
(* Cells of the input table: a text, or pandas' NaN for an empty cell.     *)

NaN == [na |-> TRUE, text |-> ""]

Text(s) == [na |-> FALSE, text |-> s]

\* pd.notna(v)
notna(v) == ~v.na

\* str(v): a text is itself, the float NaN prints as "nan".
str(v) == IF v.na THEN "nan" ELSE v.text

-----------------------------------------------------------------------------
(* The classifier.                                                         *)

\* A variant of SortByScoreDesc in which, of two entries of equal score, the later one
\* comes first.
SortByScoreDesc_later_first(scores) ==
  With(scores, LAMBDA sc :
    LET Before(j, i) == sc[j][2] > sc[i][2] \/ (sc[j][2] = sc[i][2] /\ j > i)
        Place(i) == Cardinality({j \in 1..Len(sc) : Before(j, i)}) + 1
    IN  [p \in 1..Len(sc) |-> sc[CHOOSE i \in 1..Len(sc) : Place(i) = p]])

\* scores.sort(key=lambda x: x[1], reverse=True) of a list of (item, score): descending
\* by score, and stable: entries of equal score keep their order. The entry at place p
\* is the one with p - 1 entries before it.
SortByScoreDesc(scores) ==
  With(scores, LAMBDA sc :
    LET Before(j, i) == sc[j][2] > sc[i][2] \/ (sc[j][2] = sc[i][2] /\ j < i)
        Place(i) == Cardinality({j \in 1..Len(sc) : Before(j, i)}) + 1
    IN  [p \in 1..Len(sc) |-> sc[CHOOSE i \in 1..Len(sc) : Place(i) = p]])

\* skill.lower() and skill.lower().split() of the skills of the registry, computed once.
skill_keys ==
  [skill \in UNION {{categories[c].skills[k] : k \in 1..Len(categories[c].skills)} :
                     c \in 1..Len(categories)} |->
     [exact |-> lower(skill), words |-> split(lower(skill))]]

SkillLower(skill) ==
  IF skill \in DOMAIN skill_keys THEN skill_keys[skill].exact ELSE lower(skill)

SkillWords(skill) ==
  IF skill \in DOMAIN skill_keys THEN skill_keys[skill].words ELSE split(lower(skill))

\* +1 for every word of the skill name that is in the text and longer than 3 characters.
WordScore(skill_words, text) ==
  Cardinality({w \in 1..Len(skill_words) :
                 Contains(text, skill_words[w]) /\ Len(skill_words[w]) > MinWordLen})

\* What one skill adds to its category's score.
SkillScore(skill, text) ==
  (IF Contains(text, SkillLower(skill)) THEN ExactMatchScore ELSE 0)
    + WordScore(SkillWords(skill), text)

\* The score of one category for the lower-cased text.
CategoryScore(category, text) ==
  Sum([k \in 1..Len(category.skills) |-> SkillScore(category.skills[k], text)])

\* The text detect_category and detect_subcategories look at.
ClassifierText(description, about) == lower(str(description) \o " " \o str(about))

\* category_scores before the sort: (category, score) in registry order.
category_scores(text) ==
  [c \in 1..Len(categories) |-> <<categories[c], CategoryScore(categories[c], text)>>]

\* A variant of detect_category whose default is a category outside the registry.
detect_category_unregistered(description, about) ==
  With(ClassifierText(description, about), LAMBDA text :
    With(SortByScoreDesc(category_scores(text)), LAMBDA sorted :
      IF sorted[1][2] = 0
        THEN [id |-> "cat000", name |-> "General", skills |-> <<"General">>]
        ELSE sorted[1][1]))

\* A variant of detect_category whose default is the last category of the registry.
detect_category_last_default(description, about) ==
  With(ClassifierText(description, about), LAMBDA text :
    With(SortByScoreDesc(category_scores(text)), LAMBDA sorted :
      IF sorted[1][2] = 0 THEN categories[Len(categories)] ELSE sorted[1][1]))

\* The category of the highest score, the first of them in the registry; the first
\* category of the registry when every score is 0.
detect_category(description, about) ==
  With(ClassifierText(description, about), LAMBDA text :
    With(SortByScoreDesc(category_scores(text)), LAMBDA sorted :
      IF sorted[1][2] = 0 THEN categories[1] ELSE sorted[1][1]))

\* The score of one subcategory: its keywords that are in the text.
KeywordScore(keywords, text) ==
  Cardinality({k \in 1..Len(keywords) : Contains(text, keywords[k])})

\* subcategory_scores before the sort: (name, score) in declared order.
subcategory_scores(category_subcategories, text) ==
  [i \in 1..Len(category_subcategories) |->
     <<category_subcategories[i].name,
       KeywordScore(category_subcategories[i].keywords, text)>>]

\* A variant of NamesAboveZero that keeps the names of score 0 too.
RECURSIVE NamesAboveZero_all(_, _)
NamesAboveZero_all(sorted, i) ==
  IF i > Len(sorted) THEN <<>>
  ELSE <<sorted[i][1]>> \o NamesAboveZero_all(sorted, i + 1)

RECURSIVE NamesAboveZero(_, _)
NamesAboveZero(sorted, i) ==
  IF i > Len(sorted) THEN <<>>
  ELSE (IF sorted[i][2] > 0 THEN <<sorted[i][1]>> ELSE <<>>) \o NamesAboveZero(sorted, i + 1)

detect_subcategories(description, about, category_name) ==
  With(ClassifierText(description, about), LAMBDA text :
    With(DictGet(sub_categories, category_name,
                 DictGet(sub_categories, "Computer Science", <<>>)),
         LAMBDA category_subcategories :
      With(SortByScoreDesc(subcategory_scores(category_subcategories, text)),
           LAMBDA sorted :
        With(NamesAboveZero(sorted, 1), LAMBDA detected_subcategories :
          IF detected_subcategories = <<>> THEN <<"Introduction">>
          ELSE detected_subcategories))))

\* A variant of FirstSkillIn that gives the last skill found, not the first.
RECURSIVE FirstSkillIn_last(_, _, _)
FirstSkillIn_last(skills, i, desc_text) ==
  IF i > Len(skills) THEN ""
  ELSE With(FirstSkillIn_last(skills, i + 1, desc_text), LAMBDA later :
         IF later # "" THEN later
         ELSE IF Contains(desc_text, SkillLower(skills[i])) THEN skills[i] ELSE "")

RECURSIVE FirstSkillIn(_, _, _)
FirstSkillIn(skills, i, desc_text) ==
  IF i > Len(skills) THEN ""
  ELSE IF Contains(desc_text, SkillLower(skills[i])) THEN skills[i]
       ELSE FirstSkillIn(skills, i + 1, desc_text)

\* skill_name of a row: the first skill of the category found in the description, or
\* the category's first skill.
skill_name(description, category) ==
  With(IF notna(description) THEN lower(str(description)) ELSE "", LAMBDA desc_text :
    With(IF notna(description) THEN FirstSkillIn(category.skills, 1, desc_text) ELSE "",
         LAMBDA found : IF found = "" THEN category.skills[1] ELSE found))

-----------------------------------------------------------------------------
(* Python values the title functions return or raise.                      *)

\* A list of strings.
PyList(items) == [type |-> "list", items |-> items, s |-> ""]

\* A str.
PyStr(s) == [type |-> "str", items |-> <<>>, s |-> s]

\* A call that returned value, and a call that raised the exception exc.
Returned(value) == [exc |-> "", value |-> value]

Raised(exc) == [exc |-> exc, value |-> PyList(<<>>)]

Min(a, b) == IF a <= b THEN a ELSE b

-----------------------------------------------------------------------------
(* The rule-based title synthesis.                                         *)

\* The template of a main topic that has none of its own.
DefaultTemplate ==
  <<"Introduction to Course", "Basic Concepts", "Intermediate Topics",
    "Advanced Topics", "Practical Applications">>

AnyKeywordIn(keywords, combined_text) ==
  \E j \in 1..Len(keywords) : Contains(combined_text, keywords[j])

RECURSIVE FirstLanguage(_, _)
FirstLanguage(i, combined_text) ==
  IF i > Len(language_keywords) THEN ""
  ELSE IF AnyKeywordIn(language_keywords[i].value, combined_text)
         THEN language_keywords[i].key
         ELSE FirstLanguage(i + 1, combined_text)

\* A variant of FirstTopic that gives the topic of the last keyword found.
RECURSIVE FirstTopic_last(_, _, _)
FirstTopic_last(category_keywords, i, combined_text) ==
  IF i > Len(category_keywords) THEN ""
  ELSE With(FirstTopic_last(category_keywords, i + 1, combined_text), LAMBDA later :
         IF later # "" THEN later
         ELSE IF Contains(combined_text, category_keywords[i][1])
                THEN category_keywords[i][2]
                ELSE "")

RECURSIVE FirstTopic(_, _, _)
FirstTopic(category_keywords, i, combined_text) ==
  IF i > Len(category_keywords) THEN ""
  ELSE IF Contains(combined_text, category_keywords[i][1])
         THEN category_keywords[i][2]
         ELSE FirstTopic(category_keywords, i + 1, combined_text)

\* A variant of identify_main_topic that looks for the category's topics before the
\* languages.
identify_main_topic_topic_first(combined_text, category_name) ==
  With(DictGet(topic_keywords, category_name, <<>>), LAMBDA category_keywords :
    With(FirstTopic(category_keywords, 1, combined_text), LAMBDA topic :
      IF topic # "" THEN topic
      ELSE With(FirstLanguage(1, combined_text), LAMBDA language :
             IF language # "" THEN language
             ELSE IF category_name # "" THEN category_name ELSE "General")))

identify_main_topic(combined_text, category_name) ==
  With(FirstLanguage(1, combined_text), LAMBDA language :
    IF language # "" THEN language
    ELSE With(DictGet(topic_keywords, category_name, <<>>), LAMBDA category_keywords :
           With(FirstTopic(category_keywords, 1, combined_text), LAMBDA topic :
             IF topic # "" THEN topic
             ELSE IF category_name # "" THEN category_name ELSE "General")))

\* A variant of PatternsIn that gives the patterns found from the last declared to the
\* first.
RECURSIVE PatternsIn_reversed(_, _, _)
PatternsIn_reversed(patterns, i, combined_text) ==
  IF i > Len(patterns) THEN <<>>
  ELSE PatternsIn_reversed(patterns, i + 1, combined_text)
         \o (IF Contains(combined_text, patterns[i]) THEN <<patterns[i]>> ELSE <<>>)

RECURSIVE PatternsIn(_, _, _)
PatternsIn(patterns, i, combined_text) ==
  IF i > Len(patterns) THEN <<>>
  ELSE (IF Contains(combined_text, patterns[i]) THEN <<patterns[i]>> ELSE <<>>)
         \o PatternsIn(patterns, i + 1, combined_text)

identify_subtopics(combined_text, main_topic) ==
  With(DictGet(subtopic_patterns, main_topic, <<>>), LAMBDA patterns :
    PatternsIn(patterns, 1, combined_text))

HasKey(dict, key) == \E i \in 1..Len(dict) : dict[i].key = key

\* dict[key] = value for a key the dict has.
DictSet(dict, key, value) ==
  [i \in 1..Len(dict) |-> IF dict[i].key = key THEN [key |-> key, value |-> value]
                          ELSE dict[i]]

\* A variant of topic_templates_of_call with one dict for all calls: built by the first
\* call, and kept.
topic_templates_of_call_kept ==
  IF local_templates = <<>> THEN topic_templates ELSE local_templates

\* The dict the local topic_templates is bound to in a call: the dict display is
\* evaluated at every call, and gives a new dict with new lists; the dict of an
\* earlier call is not read.
topic_templates_of_call == topic_templates

\* A variant of generate_titles_for_topic that looks the template up under the topic in
\* title case.
generate_titles_for_topic_title_key(main_topic, subtopics) ==
  With(DictGet(topic_templates_of_call, title(main_topic), DefaultTemplate), LAMBDA templates :
    With(SubSeq(subtopics, 1, Min(MaxSubtopics, Len(subtopics))), LAMBDA used :
      With([i \in 1..Len(templates) |->
              IF i <= Len(used) THEN main_topic \o ": " \o title(used[i])
              ELSE templates[i]],
           LAMBDA filled : SubSeq(filled, 1, Min(TemplateTitlesCap, Len(filled))))))

generate_titles_for_topic(main_topic, subtopics) ==
  With(DictGet(topic_templates_of_call, main_topic, DefaultTemplate), LAMBDA templates :
    With(SubSeq(subtopics, 1, Min(MaxSubtopics, Len(subtopics))), LAMBDA used :
      With([i \in 1..Len(templates) |->
              IF i <= Len(used) THEN main_topic \o ": " \o title(used[i])
              ELSE templates[i]],
           LAMBDA filled : SubSeq(filled, 1, Min(TemplateTitlesCap, Len(filled))))))

\* The dict of the call when it returns: "templates[i] = ..." assigns into the list of
\* the dict when the topic has a template, and into the default list, which is not in
\* the dict, when it has none.
templates_after(main_topic, subtopics) ==
  With(topic_templates_of_call, LAMBDA dict :
    IF ~HasKey(dict, main_topic) THEN dict
    ELSE With(DictGet(dict, main_topic, DefaultTemplate), LAMBDA templates :
           With(SubSeq(subtopics, 1, Min(MaxSubtopics, Len(subtopics))), LAMBDA used :
             With([i \in 1..Len(templates) |->
                     IF i <= Len(used) THEN main_topic \o ": " \o title(used[i])
                     ELSE templates[i]],
                  LAMBDA filled :
                    DictSet(dict, main_topic, SubSeq(filled, 1, Len(filled)))))))

\* The call on texts: lower-case both, find the topic and the subtopics, fill the
\* template.
FallbackTitles(lesson_title, description, category_name) ==
  With(lower(lesson_title) \o " " \o lower(description), LAMBDA combined_text :
    With(identify_main_topic(combined_text, category_name), LAMBDA main_topic :
      With(identify_subtopics(combined_text, main_topic), LAMBDA subtopics :
        generate_titles_for_topic(main_topic, subtopics))))

\* lesson_title and description are cells: .lower() of a float (NaN) raises.
generate_fallback_content_titles(lesson_title, description, category_name) ==
  IF lesson_title.na \/ description.na
    THEN Raised("AttributeError")
    ELSE Returned(PyList(FallbackTitles(lesson_title.text, description.text, category_name)))

\* The dict that generate_fallback_content_titles leaves: the one of its call of
\* generate_titles_for_topic, which a call that raises before does not reach.
fallback_templates(lesson_title, description, category_name) ==
  IF lesson_title.na \/ description.na THEN local_templates
  ELSE With(lower(lesson_title.text) \o " " \o lower(description.text), LAMBDA combined_text :
         With(identify_main_topic(combined_text, category_name), LAMBDA main_topic :
           With(identify_subtopics(combined_text, main_topic), LAMBDA subtopics :
             templates_after(main_topic, subtopics))))

-----------------------------------------------------------------------------
(* The API key.                                                            *)

\* An optional string: None, or a str.
None == [none |-> TRUE, s |-> ""]

Some(s) == [none |-> FALSE, s |-> s]

\* if v: neither None nor the empty string.
Truthy(v) == ~v.none /\ v.s # ""

\* The secret file .env/GLM_API_KEY.env: missing (open raises FileNotFoundError),
\* unreadable (open raises another OSError), or its lines.
MissingFile == [state |-> "missing", lines |-> <<>>]

UnreadableFile == [state |-> "unreadable", lines |-> <<>>]

FileWith(lines) == [state |-> "present", lines |-> lines]

KeyPrefix == "GLM_API_KEY="

\* line.split("=", 1)[1] of a line that holds a "=".
AfterFirstEquals(line) ==
  LET at == CHOOSE i \in 1..Len(line) :
              CharAt(line, i) = "=" /\ \A j \in 1..(i - 1) : CharAt(line, j) # "="
  IN  SubSeq(line, at + 1, Len(line))

RECURSIVE KeyInLines(_, _)
KeyInLines(lines, i) ==
  IF i > Len(lines) THEN None
  ELSE IF StartsWith(lines[i], KeyPrefix) THEN Some(strip(AfterFirstEquals(lines[i])))
       ELSE KeyInLines(lines, i + 1)

\* The key found (or None), or the exception open() raised.
get_api_key(env_key, file) ==
  IF Truthy(env_key) THEN [exc |-> "", key |-> env_key]
  ELSE IF file.state = "missing" THEN [exc |-> "", key |-> None]
  ELSE IF file.state = "unreadable" THEN [exc |-> "OSError", key |-> None]
  ELSE [exc |-> "", key |-> KeyInLines(file.lines, 1)]

-----------------------------------------------------------------------------
(* What the remote request can end in.                                     *)
(*   kind "ConnectionError", "Timeout": requests.post raises;              *)
(*        "HTTPError": raise_for_status raises;                            *)
(*        "BodyNotJson": response.json() raises;                           *)
(*        "NoChoices": the result has no "choices", or an empty list;      *)
(*        "NoContent": choices[0] has no message or no content (KeyError); *)
(*        "ContentNone": the content is null;                              *)
(*        "ContentText": the content is text that is not JSON;             *)
(*        "ContentJson": the content is JSON; data is the type of the      *)
(*          value json.loads gives, has_titles is ("titles" in it), and    *)
(*          for a dict titles_type, items, s describe its "titles" value;  *)
(*          for a list, items are its elements.                            *)

Outcome(kind) ==
  [kind |-> kind, text |-> "", data |-> "", has_titles |-> FALSE,
   titles_type |-> "", items |-> <<>>, s |-> ""]

RawContent(text) == [Outcome("ContentText") EXCEPT !.text = text]

\* JSON that is no object: a list, a str, a number or null.
JsonValue(data, has_titles) ==
  [Outcome("ContentJson") EXCEPT !.data = data, !.has_titles = has_titles]

\* A JSON array of strings: [...]
JsonArray(items) ==
  [Outcome("ContentJson") EXCEPT
     !.data = "list", !.items = items,
     !.has_titles = (\E i \in 1..Len(items) : items[i] = "titles")]

JsonObjectWithout == [Outcome("ContentJson") EXCEPT !.data = "dict"]

\* {"titles": [...]}
JsonTitles(items) ==
  [Outcome("ContentJson") EXCEPT !.data = "dict", !.has_titles = TRUE,
                                 !.titles_type = "list", !.items = items]

\* {"titles": "..."}
JsonTitlesStr(s) ==
  [Outcome("ContentJson") EXCEPT !.data = "dict", !.has_titles = TRUE,
                                 !.titles_type = "str", !.s = s]

\* {"titles": v} for v a number, null, or a dict of len(items) keys.
JsonTitlesOther(titles_type, items) ==
  [Outcome("ContentJson") EXCEPT !.data = "dict", !.has_titles = TRUE,
                                 !.titles_type = titles_type, !.items = items]

\* The prefixes of a bullet or a numbering.
BulletPrefixes == <<"-", "*", "1.", "2.", "3.", "4.", "5.">>

HasBulletPrefix(line) ==
  \E i \in 1..Len(BulletPrefixes) : StartsWith(line, BulletPrefixes[i])

\* What the try block does from the request on: it returns value, it raises exc, or
\* it falls through to the fallback call that ends the block.
BodyReturn(value) == [path |-> "return", exc |-> "", value |-> value]

BodyRaise(exc) == [path |-> "raise", exc |-> exc, value |-> PyList(<<>>)]

BodyFallThrough == [path |-> "fallthrough", exc |-> "", value |-> PyList(<<>>)]

\* The loop over the lines of a content that is not JSON. A line with a bullet prefix
\* reaches line.startswith("-", "*"), whose second argument is no index: TypeError.
RECURSIVE ExtractTitles(_, _, _)
ExtractTitles(lines, i, titles) ==
  IF i > Len(lines) THEN BodyReturn(PyList(titles))
  ELSE LET line == strip(lines[i])
       IN  IF HasBulletPrefix(line) THEN BodyRaise("TypeError")
           ELSE IF line # ""
                  THEN IF Len(titles) + 1 >= ExtractedTitlesCap
                         THEN BodyReturn(PyList(Append(titles, line)))
                         ELSE ExtractTitles(lines, i + 1, Append(titles, line))
                  ELSE ExtractTitles(lines, i + 1, titles)

\* A variant of ParsedContent that returns the whole "titles" list, however long.
ParsedContent_uncut(o) ==
  CASE o.data \in {"num", "null"} -> BodyRaise("TypeError")
    [] o.data \in {"list", "str"} ->
         IF o.has_titles THEN BodyRaise("TypeError") ELSE BodyFallThrough
    [] OTHER ->
         IF ~o.has_titles THEN BodyFallThrough
         ELSE CASE o.titles_type = "list" ->
                     IF Len(o.items) > 0 THEN BodyReturn(PyList(o.items))
                     ELSE BodyFallThrough
                [] o.titles_type = "str" ->
                     IF Len(o.s) > 0
                       THEN BodyReturn(PyStr(SubSeq(o.s, 1, Min(RemoteTitlesCap, Len(o.s)))))
                       ELSE BodyFallThrough
                [] o.titles_type = "dict" ->
                     IF Len(o.items) > 0 THEN BodyRaise("TypeError") ELSE BodyFallThrough
                [] OTHER -> BodyRaise("TypeError")

\* The content json.loads parsed: "titles" in content_data, len(...) > 0, [:5].
ParsedContent(o) ==
  CASE o.data \in {"num", "null"} -> BodyRaise("TypeError")
    [] o.data \in {"list", "str"} ->
         IF o.has_titles THEN BodyRaise("TypeError") ELSE BodyFallThrough
    [] OTHER ->
         IF ~o.has_titles THEN BodyFallThrough
         ELSE CASE o.titles_type = "list" ->
                     IF Len(o.items) > 0
                       THEN BodyReturn(PyList(SubSeq(o.items, 1, Min(RemoteTitlesCap, Len(o.items)))))
                       ELSE BodyFallThrough
                [] o.titles_type = "str" ->
                     IF Len(o.s) > 0
                       THEN BodyReturn(PyStr(SubSeq(o.s, 1, Min(RemoteTitlesCap, Len(o.s)))))
                       ELSE BodyFallThrough
                [] o.titles_type = "dict" ->
                     IF Len(o.items) > 0 THEN BodyRaise("TypeError") ELSE BodyFallThrough
                [] OTHER -> BodyRaise("TypeError")

\* The content that is not JSON: its lines, and the titles found if there are any.
TextContent(o) ==
  With(split_on(strip(o.text), "\n"), LAMBDA lines :
    With(ExtractTitles(lines, 1, <<>>), LAMBDA got :
      IF got.path = "return" /\ got.value.items = <<>> THEN BodyFallThrough ELSE got))

RequestBody(o) ==
  CASE o.kind \in {"ConnectionError", "Timeout", "HTTPError"} -> BodyRaise(o.kind)
    [] o.kind = "BodyNotJson" -> BodyRaise("JSONDecodeError")
    [] o.kind = "NoChoices" -> BodyFallThrough
    [] o.kind = "NoContent" -> BodyRaise("KeyError")
    [] o.kind = "ContentNone" -> BodyRaise("TypeError")
    [] o.kind = "ContentJson" -> ParsedContent(o)
    [] OTHER -> TextContent(o)

\* A variant of TryExcept without the handler: an exception of the block leaves the
\* function.
TryExcept_reraise(body, fallback) ==
  CASE body.path = "return" -> Returned(body.value)
    [] body.path = "raise" -> Raised(body.exc)
    [] OTHER -> fallback

\* The try block ending in body, under "except Exception": where the block falls
\* through it returns the fallback, and the handler of any exception returns the
\* fallback too. An exception of the fallback itself is raised again by the handler's
\* own call, and leaves the function.
TryExcept(body, fallback) ==
  CASE body.path = "return" -> Returned(body.value)
    [] body.path = "raise" -> fallback
    [] OTHER -> fallback

\* generate_content_titles from the request on, when the remote service answers o.
generate_content_titles_request(o, lesson_title, description, category_name) ==
  With(RequestBody(o), LAMBDA body :
    TryExcept(body, generate_fallback_content_titles(
                      lesson_title, description, category_name)))

-----------------------------------------------------------------------------
(* Dates: a datetime is the day number since 1970-01-01 and the second of   *)
(* the day, without a time zone (Asia/Bangkok wall clock).                  *)

DateTime(days, secs) == [days |-> days, secs |-> secs]

\* A variant of PlusDays that goes the other way.
PlusDays_backwards(dt, n) == [dt EXCEPT !.days = dt.days - n]

\* dt + timedelta(days=n)
PlusDays(dt, n) == [dt EXCEPT !.days = dt.days + n]

\* The civil date of a day number (proleptic Gregorian calendar).
CivilFromDays(days) ==
  LET z == days + 719468
      era == z \div 146097
      doe == z - era * 146097
      yoe == (doe - doe \div 1460 + doe \div 36524 - doe \div 146096) \div 365
      doy == doe - (365 * yoe + yoe \div 4 - yoe \div 100)
      mp == (5 * doy + 2) \div 153
      m == IF mp < 10 THEN mp + 3 ELSE mp - 9
  IN  [year |-> yoe + era * 400 + (IF m <= 2 THEN 1 ELSE 0),
       month |-> m,
       day |-> doy - (153 * mp + 2) \div 5 + 1]

Pad2(n) == IF n < 10 THEN "0" \o ToString(n) ELSE ToString(n)

\* dt.strftime("%Y-%m-%d %H:%M:%S")
strftime(dt) ==
  LET d == CivilFromDays(dt.days)
  IN  ToString(d.year) \o "-" \o Pad2(d.month) \o "-" \o Pad2(d.day) \o " "
        \o Pad2(dt.secs \div 3600) \o ":" \o Pad2((dt.secs \div 60) % 60) \o ":"
        \o Pad2(dt.secs % 60)

-----------------------------------------------------------------------------
(* The inputs explored.                                                    *)

\* Rows of the input table per run, at most.
MaxRows == 2

\* Fragments per description text, at most.
MaxWords == 2

\* The fragments descriptions are put together from: the scenario sentence, skill
\* names of several categories in upper and lower case, words that hold a keyword
\* only inside another word ("smart" holds "art"), and words without any keyword.
Fragments ==
  {"Learn variables, loops, and functions", "Python", "Programming basics",
   "Machine Learning", "Machine Learning classification", "statistics", "mental health", "Public Speaking", "teaching",
   "smart", "cooking", "basic yoga"}

RECURSIVE TextsOf(_)
TextsOf(n) ==
  IF n = 0 THEN {""}
  ELSE LET shorter == TextsOf(n - 1)
       IN  shorter \cup {IF t = "" THEN w ELSE t \o " " \o w : t \in shorter, w \in Fragments}

\* "Course Description" cells of the classifier's inputs.
DescriptionCells == {NaN} \cup {Text(t) : t \in TextsOf(MaxWords)}

\* "About" cells of the classifier's inputs.
AboutCells == {NaN, Text(""), Text("A history of art and society")}

InputRow(name, about, description) ==
  [Name |-> name, Level |-> Text("Beginner"), About |-> about,
   Description |-> description, University |-> Text("MITx"),
   Link |-> Text("https://www.edx.org/course")]

\* Rows of the batch: the two scenario rows, a row whose title holds subtopics of its
\* language, and a row of empty cells.
BatchRows ==
  {InputRow(Text("Introduction to Python Programming"), NaN,
            Text("Learn variables, loops, and functions")),
   InputRow(Text("Beginner Mandarin Chinese Course"), Text("Speak Mandarin"), NaN),
   InputRow(Text("Chinese Grammar and Writing"), NaN, NaN),
   InputRow(NaN, NaN, NaN)}

RECURSIVE TablesOf(_)
TablesOf(n) ==
  IF n = 0 THEN {<<>>}
  ELSE LET shorter == TablesOf(n - 1)
       IN  shorter \cup {Append(t, r) : t \in shorter, r \in BatchRows}

\* Arguments of generate_content_titles.
TitleCells ==
  {NaN, Text(""), Text("Introduction to Python Programming"),
   Text("Beginner Mandarin Chinese Course"), Text("Chinese Grammar and Writing"),
   Text("Learn SPANISH Today"), Text("Marketing Analytics"),
   Text("Foundations 101 (Self-Paced): Python Basics")}

TitleDescriptions ==
  {Text(""), Text("Learn variables, loops, and functions"),
   Text("Reading, listening and speaking practice for Chinese speakers")}

CategoryNames == {categories[i].name : i \in 1..Len(categories)} \cup {""}

\* The environment variable GLM_API_KEY: unset, empty, or a token.
EnvironKeys == {None, Some(""), Some("tok-env")}

SecretFiles ==
  {MissingFile, UnreadableFile,
   FileWith(<<"# local secrets\n", "OTHER_KEY=1\n">>),
   FileWith(<<"GLM_API_KEY=\n">>),
   FileWith(<<"# local secrets\n", "GLM_API_KEY= tok-file \n">>)}

FiveTitles ==
  <<"Getting Started", "Core Ideas", "Worked Examples", "Going Further", "Final Project">>

SixTitles == Append(FiveTitles, "Appendix")

\* Answers of the remote service, one or more of every kind.
RemoteOutcomes ==
  {Outcome("ConnectionError"), Outcome("Timeout"), Outcome("HTTPError"),
   Outcome("BodyNotJson"), Outcome("NoChoices"), Outcome("NoContent"),
   Outcome("ContentNone"),
   JsonTitles(FiveTitles), JsonTitles(SubSeq(FiveTitles, 1, 4)), JsonTitles(SixTitles),
   JsonTitles(<<"Only One Title">>), JsonTitles(<<>>),
   JsonTitles(<<"Getting Started", "", "Worked Examples", "Going Further">>),
   JsonTitlesStr("Getting Started"), JsonTitlesStr(""),
   JsonTitlesOther("num", <<>>), JsonTitlesOther("null", <<>>),
   JsonTitlesOther("dict", <<"a">>), JsonTitlesOther("dict", <<>>),
   JsonObjectWithout,
   JsonArray(FiveTitles), JsonArray(SubSeq(FiveTitles, 1, 4)),
   JsonValue("list", FALSE), JsonValue("list", TRUE), JsonValue("str", FALSE),
   JsonValue("str", TRUE), JsonValue("num", FALSE), JsonValue("null", FALSE),
   RawContent("Getting Started\nCore Ideas\n\nWorked Examples\n  Going Further \nFinal Project\nAppendix"),
   RawContent("Here are the titles"),
   RawContent("- Getting Started\n- Core Ideas\n- Worked Examples\n- Going Further"),
   RawContent("Titles:\n1. Getting Started\n2. Core Ideas"),
   RawContent(""), RawContent(" \n \n")}

\* Answers of the remote service in a batch run.
BatchOutcomes == {Outcome("Timeout"), JsonTitles(FiveTitles)}

\* Outcomes of str(ULID()): 26 characters, 10 of the time stamp and 16 random ones.
UlidSamples == {"01KA7M3T9QX5C2R8FVHW4D6N0P", "01KA7M3T9RB3ZK8Y1MQ7E5G2AJ"}

\* random.randint(1, 365) and random.randint(0, 30).
MinDaysAgo == 1

MaxDaysAgo == 365

MinUpdateDays == 0

MaxUpdateDays == 30

\* The draws explored: the ends of each range.
DaysAgoDraws == {MinDaysAgo, MaxDaysAgo}

UpdateDraws == {MinUpdateDays, MaxUpdateDays}

Statuses == {"active", "draft", "archived"}

\* datetime.now(thailand_tz): 2026-01-01 00:00:30.
NowSamples == {DateTime(20454, 30)}

-----------------------------------------------------------------------------
(* Values of the state before a run.                                       *)

NoCategory == [id |-> "", name |-> "", skills |-> <<>>]

NoTime == DateTime(0, 0)

\* The locals of the loop body before the row is read.
BlankRow ==
  [ulid |-> "", lessontitle |-> NaN, level |-> NaN, short_description |-> Text(""),
   description |-> Text(""), university |-> Text(""), link |-> Text(""),
   category |-> NoCategory, detected_subcategories |-> <<>>, skill_name |-> "",
   cover_image_id |-> "", preview_video_id |-> "", created_at |-> NoTime,
   updated_at |-> NoTime, status |-> ""]

NoCall == [lesson_title |-> NaN, description |-> NaN, category_name |-> ""]

\* No answer: no request was posted in this call.
NoResponse == Outcome("")

NoTable == [columns |-> <<>>, rows |-> <<>>]

\* No call of generate_titles_for_topic yet: no dict.
NoTemplates == <<>>

NoFile == [exists |-> FALSE, columns |-> <<>>, rows |-> <<>>]

\* The output file an earlier run left: the declared columns and one row.
OldCatalog ==
  [exists |-> TRUE, columns |-> output_columns,
   rows |-> << <<"01JZ0EARL1ERRVN0F7H1SPR0GR", Text("An earlier course"),
                 PyList(DefaultTemplate), categories[1].skills[1], Text("Beginner"),
                 categories[1].id, categories[1].name, <<"Introduction">>,
                 "img_01JZ0EAR", "vid_01JZ0EAR", "2025-06-01 09:00:00",
                 "2025-06-11 09:00:00", None, "active", Text(""), Text(""),
                 Text("MITx"), Text("https://www.edx.org/course")>> >>]

\* The state of a run before its first step, but for the inputs.
AtStart ==
  /\ df = <<>> /\ index = 0 /\ current_time = NoTime /\ cur = BlankRow
  /\ output_df = NoTable /\ writes = 0
  /\ call = NoCall /\ api_key = None /\ response = NoResponse
  /\ ret = Returned(PyList(<<>>)) /\ requests = 0
  /\ local_templates = NoTemplates

\* A run of generate_mock_data: the first one, or one that finds the output file of an
\* earlier run.
Init ==
  /\ catalog \in {NoFile, OldCatalog}
  /\ csv \in {[exists |-> FALSE, rows |-> <<>>]}
               \cup {[exists |-> TRUE, rows |-> t] : t \in TablesOf(MaxRows)}
  /\ environ \in {None, Some("tok-env")}
  /\ secret_file = MissingFile
  /\ service = BatchOutcomes
  /\ pc = "read" /\ tpc = "idle"
  /\ AtStart

-----------------------------------------------------------------------------
(* generate_mock_data.                                                     *)

\* pd.read_csv, the empty output table, the time of the run.
ReadCsv ==
  /\ pc = "read"
  /\ IF csv.exists
       THEN /\ df' = csv.rows
            /\ output_df' = [columns |-> output_columns, rows |-> <<>>]
            /\ \E now \in NowSamples : current_time' = now
            /\ pc' = "loop"
       ELSE /\ pc' = "failed"
            /\ UNCHANGED <<df, output_df, current_time>>
  /\ UNCHANGED <<index, cur, catalog, writes>>
  /\ UNCHANGED <<world, titles_call>>

\* The loop takes the next row and draws its ULID.
RowUlid ==
  /\ pc = "loop" /\ index < Len(df)
  /\ \E ulid \in UlidSamples : cur' = [BlankRow EXCEPT !.ulid = ulid]
  /\ pc' = "map"
  /\ UNCHANGED <<df, index, current_time, output_df, catalog, writes>>
  /\ UNCHANGED <<world, titles_call>>

\* pd.notna(v) ? v : ""
OrEmpty(v) == IF notna(v) THEN v ELSE Text("")

\* The columns of the row are mapped and the row is classified.
RowClassify ==
  /\ pc = "map"
  /\ \E row \in {df[index + 1]} :
     \E short_description \in {OrEmpty(row.About)}, description \in {OrEmpty(row.Description)} :
     \E category \in {detect_category(description, short_description)} :
         cur' = [cur EXCEPT
                   !.lessontitle = row.Name,
                   !.level = row.Level,
                   !.short_description = short_description,
                   !.description = description,
                   !.university = OrEmpty(row.University),
                   !.link = OrEmpty(row.Link),
                   !.category = category,
                   !.detected_subcategories =
                      detect_subcategories(description, short_description, category.name),
                   !.skill_name = skill_name(description, category)]
  /\ pc' = "stamp"
  /\ UNCHANGED <<df, index, current_time, output_df, catalog, writes>>
  /\ UNCHANGED <<world, titles_call>>

\* The mock ids, the time stamps and the status.
RowStamp ==
  /\ pc = "stamp"
  /\ \E days_ago \in DaysAgoDraws, days_on \in UpdateDraws, status \in Statuses :
       LET created_at == PlusDays(current_time, -days_ago)
       IN  cur' = [cur EXCEPT
                     !.cover_image_id = "img_" \o SubSeq(cur.ulid, 1, IdPrefixLen),
                     !.preview_video_id = "vid_" \o SubSeq(cur.ulid, 1, IdPrefixLen),
                     !.created_at = created_at,
                     !.updated_at = PlusDays(created_at, days_on),
                     !.status = status]
  /\ pc' = "titles"
  /\ UNCHANGED <<df, index, current_time, output_df, catalog, writes>>
  /\ UNCHANGED <<world, titles_call>>

\* A variant of CallTitles that passes the name of the first category of the registry.
CallTitles_first_category ==
  /\ pc = "titles" /\ tpc = "idle"
  /\ call' = [lesson_title |-> cur.lessontitle, description |-> cur.description,
              category_name |-> categories[1].name]
  /\ tpc' = "start"
  /\ response' = NoResponse
  /\ UNCHANGED <<api_key, ret, requests, local_templates>>
  /\ UNCHANGED <<world, batch>>

\* generate_content_titles is called for the row.
CallTitles ==
  /\ pc = "titles" /\ tpc = "idle"
  /\ call' = [lesson_title |-> cur.lessontitle, description |-> cur.description,
              category_name |-> cur.category.name]
  /\ tpc' = "start"
  /\ response' = NoResponse
  /\ UNCHANGED <<api_key, ret, requests, local_templates>>
  /\ UNCHANGED <<world, batch>>

\* The values of the row in the order of the columns.
RowValues(r, content_title) ==
  <<r.ulid, r.lessontitle, content_title, r.skill_name, r.level, r.category.id,
    r.category.name, r.detected_subcategories, r.cover_image_id, r.preview_video_id,
    r.created_at, r.updated_at, None, r.status, r.short_description, r.description,
    r.university, r.link>>

\* A variant of loc_set that writes every row at the first label.
loc_set_first(rows, label, values) ==
  IF Len(rows) > 0 THEN [rows EXCEPT ![1] = values] ELSE Append(rows, values)

\* rows.loc[label] = values: the row of that label is set, a new label adds a row. The
\* labels of the rows are 0, 1, ... in the order they were added.
loc_set(rows, label, values) ==
  IF label < Len(rows) THEN [rows EXCEPT ![label + 1] = values] ELSE Append(rows, values)

\* A variant of RowAppend that writes the table to the output file after every row.
RowAppend_saving ==
  /\ pc = "titles" /\ tpc = "done"
  /\ Len(RowValues(cur, ret.value)) = Len(output_df.columns)
  /\ output_df' = [output_df EXCEPT !.rows = loc_set(@, index, RowValues(cur, ret.value))]
  /\ catalog' = [exists |-> TRUE, columns |-> output_df.columns, rows |-> output_df'.rows]
  /\ writes' = writes + 1
  /\ index' = index + 1
  /\ pc' = "loop"
  /\ tpc' = "idle"
  /\ UNCHANGED <<df, current_time, cur>>
  /\ UNCHANGED <<world, call, api_key, response, ret, requests, local_templates>>

\* output_df.loc[index] = [...], and the loop goes on.
RowAppend ==
  /\ pc = "titles" /\ tpc = "done"
  /\ Len(RowValues(cur, ret.value)) = Len(output_df.columns)
  /\ output_df' = [output_df EXCEPT !.rows = loc_set(@, index, RowValues(cur, ret.value))]
  /\ index' = index + 1
  /\ pc' = "loop"
  /\ tpc' = "idle"
  /\ UNCHANGED <<df, current_time, cur, catalog, writes>>
  /\ UNCHANGED <<world, call, api_key, response, ret, requests, local_templates>>

\* An exception of generate_content_titles ends the run.
RowRaise ==
  /\ pc = "titles" /\ tpc = "raised"
  /\ pc' = "failed"
  /\ UNCHANGED <<df, index, current_time, cur, output_df, catalog, writes>>
  /\ UNCHANGED <<world, titles_call>>

ColumnIndex(columns, name) == CHOOSE i \in 1..Len(columns) : columns[i] = name

\* The row with strftime applied to the column name.
Formatted(columns, row, name) ==
  [row EXCEPT ![ColumnIndex(columns, name)] = strftime(@)]

\* After the loop: the two time stamp columns become text. The .dt accessor raises on
\* a table without rows, whose columns hold no datetimes.
FormatTimestamps ==
  /\ pc = "loop" /\ index = Len(df)
  /\ IF output_df.rows = <<>>
       THEN pc' = "failed" /\ UNCHANGED output_df
       ELSE /\ output_df' =
                 [output_df EXCEPT !.rows =
                    [i \in 1..Len(@) |->
                       Formatted(output_df.columns,
                                 Formatted(output_df.columns, @[i], "createdAt"),
                                 "updatedAt")]]
            /\ pc' = "save"
  /\ UNCHANGED <<df, index, current_time, cur, catalog, writes>>
  /\ UNCHANGED <<world, titles_call>>

\* output_df.to_csv("./COURSE_CATALOG.csv", index=False)
SaveCsv ==
  /\ pc = "save"
  /\ catalog' = [exists |-> TRUE, columns |-> output_df.columns, rows |-> output_df.rows]
  /\ writes' = writes + 1
  /\ pc' = "done"
  /\ UNCHANGED <<df, index, current_time, cur, output_df>>
  /\ UNCHANGED <<world, titles_call>>

-----------------------------------------------------------------------------
(* generate_content_titles.                                                *)

Finish(result) ==
  /\ ret' = result
  /\ tpc' = IF result.exc = "" THEN "done" ELSE "raised"

\* The key is looked up; without a key (or when the look-up raises) the fallback
\* titles are the result.
GetApiKey ==
  /\ tpc = "start"
  /\ \E found \in {get_api_key(environ, secret_file)} :
       IF found.exc = "" /\ Truthy(found.key)
         THEN /\ api_key' = found.key
              /\ tpc' = "request"
              /\ UNCHANGED <<ret, local_templates>>
         ELSE /\ \E result \in
                    {TryExcept(IF found.exc = "" THEN BodyFallThrough
                               ELSE BodyRaise(found.exc),
                               generate_fallback_content_titles(
                                 call.lesson_title, call.description,
                                 call.category_name))} :
                    Finish(result)
              /\ local_templates' =
                   fallback_templates(call.lesson_title, call.description,
                                      call.category_name)
              /\ UNCHANGED api_key
  /\ UNCHANGED <<call, response, requests>>
  /\ UNCHANGED <<world, batch>>

\* The request is posted, and the answer (or the failure) is handled.
RemoteRequest ==
  /\ tpc = "request"
  /\ requests' = requests + 1
  /\ \E o \in service :
       /\ response' = o
       /\ \E result \in {generate_content_titles_request(
                            o, call.lesson_title, call.description, call.category_name)} :
            Finish(result)
       /\ local_templates' =
            IF RequestBody(o).path = "return" THEN local_templates
            ELSE fallback_templates(call.lesson_title, call.description,
                                    call.category_name)
  /\ UNCHANGED <<call, api_key>>
  /\ UNCHANGED <<world, batch>>

-----------------------------------------------------------------------------
(* The specifications.                                                     *)

Next ==
  \/ ReadCsv
  \/ RowUlid
  \/ RowClassify
  \/ RowStamp
  \/ CallTitles
  \/ GetApiKey
  \/ RemoteRequest
  \/ RowAppend
  \/ RowRaise
  \/ FormatTimestamps
  \/ SaveCsv

Spec == Init /\ [][Next]_vars

\* The classifier alone: one row of any description and about, mapped and classified.
InitClassify ==
  /\ \E description \in DescriptionCells, about \in AboutCells :
       csv = [exists |-> TRUE,
              rows |-> <<InputRow(Text("A course"), about, description)>>]
  /\ environ = None /\ secret_file = MissingFile /\ service = BatchOutcomes
  /\ pc = "map" /\ tpc = "idle"
  /\ df = csv.rows /\ index = 0 /\ current_time = NoTime
  /\ cur = [BlankRow EXCEPT !.ulid = "01KA7M3T9QX5C2R8FVHW4D6N0P"]
  /\ output_df = [columns |-> output_columns, rows |-> <<>>]
  /\ catalog = NoFile /\ writes = 0
  /\ call = NoCall /\ api_key = None /\ response = NoResponse
  /\ ret = Returned(PyList(<<>>)) /\ requests = 0
  /\ local_templates = NoTemplates

NextClassify == RowClassify

SpecClassify == InitClassify /\ [][NextClassify]_vars

\* generate_content_titles alone: one call with any arguments, key and answer.
InitTitles ==
  /\ csv = [exists |-> FALSE, rows |-> <<>>]
  /\ environ \in EnvironKeys
  /\ secret_file \in SecretFiles
  /\ service = RemoteOutcomes
  /\ pc = "titles" /\ tpc = "start"
  /\ df = <<>> /\ index = 0 /\ current_time = NoTime /\ cur = BlankRow
  /\ output_df = NoTable /\ catalog = NoFile /\ writes = 0
  /\ call \in [lesson_title : TitleCells, description : TitleDescriptions,
               category_name : CategoryNames]
  /\ api_key = None /\ response = NoResponse
  /\ ret = Returned(PyList(<<>>)) /\ requests = 0
  /\ local_templates = NoTemplates

NextTitles == GetApiKey \/ RemoteRequest

SpecTitles == InitTitles /\ [][NextTitles]_vars
-----------------------------------------------------------------------------
(* Properties.                                                             *)

\* The row at hand has been classified.
Classified == pc = "stamp"

\* The text the classifier saw for the row at hand.
SeenText == lower(cur.description.text \o " " \o cur.short_description.text)

\* The call of generate_content_titles has ended.
CallEnded == tpc \in {"done", "raised"}

\* Title and description of the call are strings.
StringArgs == ~call.lesson_title.na /\ ~call.description.na

\* What generate_fallback_content_titles returns for the string arguments of the call.
FallbackOfCall ==
  Returned(PyList(FallbackTitles(call.lesson_title.text, call.description.text,
                                 call.category_name)))

\* The request failed: no answer, an error status, a body or a content of the wrong
\* shape. A JSON object whose "titles" is a non-empty list or string, and a content
\* that is no JSON at all, are not among the failures.
RequestFailed ==
  \/ response.kind \in {"ConnectionError", "Timeout", "HTTPError", "BodyNotJson",
                        "NoChoices", "NoContent", "ContentNone"}
  \/ /\ response.kind = "ContentJson"
     /\ ~(/\ response.data = "dict" /\ response.has_titles
          /\ \/ response.titles_type = "list" /\ Len(response.items) > 0
             \/ response.titles_type = "str" /\ Len(response.s) > 0)

\* The result came from the rule-based strategy.
Deterministic == requests = 0 \/ RequestFailed

\* C1: after detect_category has classified a row, whatever its description and about
\* texts (empty ones included), the category is one of the 8 entries of the registry:
\* it is not the missing category, and its name is a name of the registry.
C1_CategoryInRegistry ==
  Classified =>
    /\ Len(categories) = 8
    /\ cur.category # NoCategory
    /\ \E c \in 1..Len(categories) : cur.category = categories[c]
    /\ cur.category.name \in
         {"Computer Science", "Business & Management", "Data Analysis & Statistics",
          "Education & Teacher Training", "Health & Safety", "Communication",
          "Humanities", "Science"}

\* C1, its case: a row of empty description and about has been classified.
C1_Witness ==
  /\ Classified
  /\ cur.description = Text("") /\ cur.short_description = Text("")
  /\ cur.category.id = "cat001"

\* No skill name of any category, and no word longer than 3 characters of one, is in
\* the text: every category scores 0.
NoSkillOccurs(text) ==
  \A c \in 1..Len(categories) : \A k \in 1..Len(categories[c].skills) :
    LET key == skill_keys[categories[c].skills[k]]
    IN  /\ ~Contains(text, key.exact)
        /\ \A w \in 1..Len(key.words) :
             ~(Contains(text, key.words[w]) /\ Len(key.words[w]) > 3)

\* C2: when no skill name and no counted word of a skill name occurs in the lower-cased
\* text of a row, detect_category gives the first category of the registry, Computer
\* Science (cat001).
C2_DefaultCategory ==
  (Classified /\ NoSkillOccurs(SeenText)) =>
    /\ cur.category = categories[1]
    /\ cur.category.id = "cat001" /\ cur.category.name = "Computer Science"

\* C2, its case: a description that is not empty and holds no skill.
C2_Witness ==
  /\ Classified
  /\ cur.description = Text("cooking basic yoga")
  /\ NoSkillOccurs(SeenText)
  /\ cur.category.name = "Computer Science"

\* C3, as the specification states it: for string arguments and any outcome of the
\* remote step, generate_content_titles returns a list of 4 or 5 strings, none empty.
C3_FourToFiveTitles ==
  (CallEnded /\ StringArgs) =>
    /\ tpc = "done"
    /\ ret.value.type = "list"
    /\ Len(ret.value.items) \in 4..5
    /\ \A i \in 1..Len(ret.value.items) : ret.value.items[i] # ""

\* C3, where the code departs from it: the remote content {"titles": ["Only One
\* Title"]} is returned as it is.
C3_Witness ==
  /\ tpc = "done" /\ StringArgs
  /\ response = JsonTitles(<<"Only One Title">>)
  /\ ret = Returned(PyList(<<"Only One Title">>))

\* The languages (by their place in language_keywords) with a keyword in the text.
LanguagesIn(text) ==
  {i \in 1..Len(language_keywords) :
     \E j \in 1..Len(language_keywords[i].value) :
       Contains(text, language_keywords[i].value[j])}

\* The template topic_templates declares for a language.
TemplateOfLanguage(i) ==
  LET at == CHOOSE n \in 1..Len(topic_templates) :
              topic_templates[n].key = language_keywords[i].key
  IN  topic_templates[at].value

\* How many subtopic patterns of the language are in the text.
PatternsFound(i, text) ==
  LET patterns == DictGet(subtopic_patterns, language_keywords[i].key, <<>>)
  IN  Cardinality({p \in 1..Len(patterns) : Contains(text, patterns[p])})

\* C4, amended: when generate_content_titles, called with strings, takes the rule-based
\* strategy and the lower-cased title or description holds a language keyword, the
\* result is the 5-entry template of the first declared language with a keyword in
\* the text, whatever the category name, but for its first min(k, 4) entries, which
\* read "<language>: <subtopic>" when k subtopic patterns of that language are in the
\* text. With no such pattern the result is the template itself.
C4_LanguageTemplate ==
  (tpc = "done" /\ StringArgs /\ Deterministic) =>
    LET text == lower(call.lesson_title.text) \o " " \o lower(call.description.text)
    IN  \A i \in LanguagesIn(text) :
          (\A j \in LanguagesIn(text) : i <= j) =>
            LET k == Min(PatternsFound(i, text), 4)
            IN  /\ ret.value.type = "list"
                /\ Len(ret.value.items) = 5
                /\ Len(TemplateOfLanguage(i)) = 5
                /\ \A n \in 1..5 :
                     IF n <= k
                       THEN StartsWith(ret.value.items[n], language_keywords[i].key \o ": ")
                       ELSE ret.value.items[n] = TemplateOfLanguage(i)[n]

\* C4, its case: without a key, and for a category that has nothing to do with
\* languages, the title "Learn SPANISH Today" gets the Spanish template.
C4_Witness ==
  /\ tpc = "done" /\ requests = 0
  /\ call.lesson_title = Text("Learn SPANISH Today") /\ call.description = Text("")
  /\ call.category_name = "Computer Science"
  /\ ret.value.items =
       <<"Introduction to Spanish", "Spanish Pronunciation", "Basic Spanish Grammar",
         "Vocabulary Building", "Conversation Practice">>

\* C4, as the specification states it: whenever the title holds a language name, the
\* result is the template of a language named in the title.
C4_Original ==
  (CallEnded /\ ~call.lesson_title.na) =>
    LET named == LanguagesIn(lower(call.lesson_title.text))
    IN  named # {} =>
          \E i \in named : ret = Returned(PyList(TemplateOfLanguage(i)))

\* The lines of a text content that are not blank, stripped, the first 5 of them.
RECURSIVE StrippedLines(_, _)
StrippedLines(lines, i) ==
  IF i > Len(lines) THEN <<>>
  ELSE (IF strip(lines[i]) # "" THEN <<strip(lines[i])>> ELSE <<>>)
         \o StrippedLines(lines, i + 1)

FirstLinesOf(text) ==
  LET found == StrippedLines(split_on(strip(text), "\n"), 1)
  IN  SubSeq(found, 1, Min(5, Len(found)))

\* C5, amended: when a request was made and the arguments are strings,
\* generate_content_titles raises nothing; it returns exactly the fallback result for
\* the same arguments when the request fails (network error, timeout, error status,
\* body that is no JSON, no choices, missing or null content, JSON content without a
\* non-empty "titles" list or string); a non-empty "titles" string comes back cut to
\* its first 5 characters; and for a content that is no JSON it returns
\* either the first 5 non-blank lines of the content or the fallback result.
C5_FailureFallsBack ==
  (CallEnded /\ requests > 0 /\ StringArgs) =>
    /\ tpc = "done" /\ ret.exc = ""
    /\ RequestFailed => ret = FallbackOfCall
    /\ response.kind = "ContentText" =>
         \/ ret = FallbackOfCall
         \/ ret = Returned(PyList(FirstLinesOf(response.text)))
    /\ (response.kind = "ContentJson" /\ ~RequestFailed /\ response.titles_type = "str") =>
         ret = Returned(PyStr(SubSeq(response.s, 1, Min(5, Len(response.s)))))

\* C5, its case: the request timed out and the fallback titles came back.
C5_Witness ==
  /\ tpc = "done" /\ requests = 1 /\ StringArgs
  /\ response.kind = "Timeout"
  /\ call.lesson_title = Text("Marketing Analytics")
  /\ Len(ret.value.items) = 5

\* The answer is the one the prompt asks for: a JSON object with a non-empty list of
\* titles.
WellFormedAnswer ==
  /\ response.kind = "ContentJson" /\ response.data = "dict" /\ response.has_titles
  /\ response.titles_type = "list" /\ Len(response.items) > 0

\* C5, as the specification states it: after a request that did not bring a well-formed
\* answer, content that is malformed or of an unexpected shape included, the result for
\* string arguments is exactly the fallback result.
C5_Original ==
  (CallEnded /\ requests > 0 /\ StringArgs /\ ~WellFormedAnswer) =>
    /\ tpc = "done"
    /\ ret = FallbackOfCall

\* get_api_key finds no token: the environment variable is unset or empty, and the
\* secret file has no line that starts with GLM_API_KEY=.
NoTokenFound ==
  /\ ~Truthy(environ)
  /\ \A i \in 1..Len(secret_file.lines) : ~StartsWith(secret_file.lines[i], "GLM_API_KEY=")

\* C6, as the specification states it: when no token is found, generate_content_titles
\* posts no request, raises nothing and returns the fallback result.
C6_NoTokenNoError ==
  (CallEnded /\ NoTokenFound) =>
    /\ requests = 0
    /\ tpc = "done" /\ ret.exc = ""
    /\ ret = FallbackOfCall

\* C6, where the code departs from it: the title is the NaN of an empty Name cell, there
\* is no token, and the AttributeError of the fallback leaves the function.
C6_Witness ==
  /\ tpc = "raised" /\ requests = 0
  /\ environ = None /\ secret_file = MissingFile
  /\ call.lesson_title = NaN /\ ~call.description.na
  /\ ret.exc = "AttributeError"

\* The number a text of digits stands for.
RECURSIVE NumberOf(_)
NumberOf(digits) ==
  IF digits = "" THEN 0
  ELSE 10 * NumberOf(SubSeq(digits, 1, Len(digits) - 1))
         + (CHOOSE d \in 0..9 : ToString(d) = CharAt(digits, Len(digits)))

\* The time stamp a text "YYYY-MM-DD HH:MM:SS" stands for.
ParseTimestamp(s) ==
  <<NumberOf(SubSeq(s, 1, 4)), NumberOf(SubSeq(s, 6, 7)), NumberOf(SubSeq(s, 9, 10)),
    NumberOf(SubSeq(s, 12, 13)), NumberOf(SubSeq(s, 15, 16)), NumberOf(SubSeq(s, 18, 19))>>

\* a is not later than b, for two parsed time stamps.
NotLater(a, b) ==
  \/ a = b
  \/ \E n \in 1..6 : a[n] < b[n] /\ \A m \in 1..(n - 1) : a[m] = b[m]

\* The time stamps of the output table are texts once they are formatted.
TimestampsFormatted == pc \in {"save", "done"}

\* C7: in every row of the output table, and of the output file, createdAt is not later
\* than updatedAt: as datetimes while the table is filled, and as the parsed texts
\* "YYYY-MM-DD HH:MM:SS" once the columns are formatted.
C7_CreatedBeforeUpdated ==
  /\ ~TimestampsFormatted =>
       \A i \in 1..Len(output_df.rows) :
         LET created == output_df.rows[i][11]
             updated == output_df.rows[i][12]
         IN  \/ created.days < updated.days
             \/ created.days = updated.days /\ created.secs <= updated.secs
  /\ TimestampsFormatted =>
       \A i \in 1..Len(output_df.rows) :
         /\ Len(output_df.rows[i][11]) = 19 /\ Len(output_df.rows[i][12]) = 19
         /\ NotLater(ParseTimestamp(output_df.rows[i][11]),
                     ParseTimestamp(output_df.rows[i][12]))
  /\ \A i \in 1..Len(catalog.rows) :
       /\ catalog.columns[11] = "createdAt" /\ catalog.columns[12] = "updatedAt"
       /\ NotLater(ParseTimestamp(catalog.rows[i][11]), ParseTimestamp(catalog.rows[i][12]))

\* C7, its case: a file of two rows, one of them created on the last day of a year and
\* updated 30 days later, in the next year.
C7_Witness ==
  /\ pc = "done" /\ Len(catalog.rows) = 2
  /\ catalog.rows[1][11] = "2025-12-31 00:00:30"
  /\ catalog.rows[1][12] = "2026-01-30 00:00:30"
  /\ catalog.rows[2][11] = catalog.rows[2][12]

\* C9: when generate_mock_data has completed, the output file has one row per row of
\* the input file and exactly the 18 declared columns, and every row has a value for
\* each of them.
C9_RowsAndColumns ==
  pc = "done" =>
    /\ catalog.exists
    /\ Len(catalog.rows) = Len(csv.rows)
    /\ catalog.columns =
         <<"id", "lessontitle", "contentTitle", "skillName", "level", "categoryId",
           "catName", "subCatName", "coverImageId", "previewVideoId", "createdAt",
           "updatedAt", "deletedAt", "status", "shortDescription", "description",
           "university", "link">>
    /\ \A i \in 1..Len(catalog.rows) : Len(catalog.rows[i]) = 18
    /\ \A i \in 1..Len(catalog.rows) : catalog.rows[i][2] = csv.rows[i].Name

\* C9, its case: a run over an input of two rows has completed.
C9_Witness ==
  /\ pc = "done"
  /\ Len(csv.rows) = 2 /\ Len(catalog.rows) = 2
  /\ csv.rows[1].Name # csv.rows[2].Name

\* The row at hand is the scenario row: the Python title and description, no other text.
ScenarioRow ==
  /\ cur.lessontitle = Text("Introduction to Python Programming")
  /\ cur.description = Text("Learn variables, loops, and functions")
  /\ cur.short_description = Text("")

\* C10, as the specification states it: the scenario row is classified as Computer
\* Science, and its subcategories contain Programming Fundamentals.
C10_ScenarioClassification ==
  (Classified /\ ScenarioRow) =>
    /\ cur.category.name = "Computer Science"
    /\ \E i \in 1..Len(cur.detected_subcategories) :
         cur.detected_subcategories[i] = "Programming Fundamentals"

\* C10, where the code departs from it: the skill "R" of Data Analysis & Statistics is
\* found as the letter r of the description, no other skill is found, and no keyword
\* of a subcategory of that category either.
C10_Witness ==
  /\ Classified /\ ScenarioRow
  /\ cur.category.name = "Data Analysis & Statistics"
  /\ cur.detected_subcategories = <<"Introduction">>
  /\ cur.skill_name = "R"

\* generate_content_titles has returned for the row at hand, by the rule-based strategy.
RowTitlesDeterministic == pc = "titles" /\ tpc = "done" /\ Deterministic

\* C11, as the specification states it: for the scenario row, processed with the
\* deterministic strategy, the content titles begin with "Introduction to Python".
C11_ScenarioTitles ==
  (RowTitlesDeterministic /\ ScenarioRow) =>
    /\ ret.value.type = "list" /\ Len(ret.value.items) > 0
    /\ StartsWith(ret.value.items[1], "Introduction to Python")

\* C11, where the code departs from it: the row was classified as Data Analysis &
\* Statistics, none of whose topic keywords is in the text, and gets the template of
\* no topic.
C11_Witness ==
  /\ RowTitlesDeterministic /\ ScenarioRow /\ requests = 0
  /\ call.category_name = "Data Analysis & Statistics"
  /\ ret.value.items =
       <<"Introduction to Course", "Basic Concepts", "Intermediate Topics",
         "Advanced Topics", "Practical Applications">>

\* The call is the Mandarin scenario: that title, an empty description.
MandarinCall ==
  /\ call.lesson_title = Text("Beginner Mandarin Chinese Course")
  /\ call.description = Text("")

\* C12, amended: for the title "Beginner Mandarin Chinese Course" and an empty
\* description the deterministic strategy returns, for any category name, exactly
\* "Introduction to Mandarin Chinese", "Pinyin and Pronunciation", "Chinese Characters
\* and Writing", "Basic Grammar and Sentence Structure", "Everyday Conversation
\* Practice", in that order.
C12_MandarinTitles ==
  (tpc = "done" /\ Deterministic /\ MandarinCall) =>
    ret = Returned(PyList(
            <<"Introduction to Mandarin Chinese", "Pinyin and Pronunciation",
              "Chinese Characters and Writing", "Basic Grammar and Sentence Structure",
              "Everyday Conversation Practice">>))

\* C12, its case: the Mandarin call ended without a key, for a category that has its
\* own topics.
C12_Witness ==
  /\ tpc = "done" /\ requests = 0 /\ MandarinCall
  /\ call.category_name = "Business & Management"
  /\ ret.value.items[2] = "Pinyin and Pronunciation"

\* C12, as the specification states it: the titles of that call are "Introduction to
\* Mandarin Chinese", "Pinyin and Characters", "Grammar and Sentence Structure",
\* "Reading and Writing", "Listening and Speaking".
C12_Original ==
  (tpc = "done" /\ Deterministic /\ MandarinCall) =>
    ret = Returned(PyList(
            <<"Introduction to Mandarin Chinese", "Pinyin and Characters",
              "Grammar and Sentence Structure", "Reading and Writing",
              "Listening and Speaking">>))

\* The row at hand has no text: its Name, About and Course Description cells are empty.
EmptyRow ==
  /\ index < Len(df)
  /\ df[index + 1].Name = NaN /\ df[index + 1].About = NaN
  /\ df[index + 1].Description = NaN

\* C13, as the specification states it: a row without any text is processed without an
\* exception; its category is the default one, its subcategories are "Introduction",
\* and under the deterministic strategy its titles are the template of no topic.
C13_EmptyRow ==
  (EmptyRow /\ pc \in {"titles", "failed"} /\ CallEnded) =>
    /\ tpc = "done" /\ pc # "failed"
    /\ cur.category = categories[1]
    /\ cur.detected_subcategories = <<"Introduction">>
    /\ Deterministic =>
         ret = Returned(PyList(
                 <<"Introduction to Course", "Basic Concepts", "Intermediate Topics",
                   "Advanced Topics", "Practical Applications">>))

\* C13, where the code departs from it: the title of the row is NaN, no key is found,
\* and the AttributeError of lesson_title.lower() ends the run before anything is
\* written.
C13_Witness ==
  /\ EmptyRow /\ pc = "failed" /\ tpc = "raised"
  /\ ret.exc = "AttributeError"
  /\ cur.category = categories[1] /\ cur.detected_subcategories = <<"Introduction">>
  /\ ~catalog.exists

\* The score the specification gives a category: 3 for every skill name that is in
\* the text, and 1 for every word longer than 3 characters of a skill name of several
\* words that is in the text.
StatedScore(category, text) ==
  3 * Cardinality({k \in 1..Len(category.skills) :
                     Contains(text, lower(category.skills[k]))})
    + Cardinality({kw \in UNION {{<<k, w>> : w \in 1..Len(split(lower(category.skills[k])))} :
                                   k \in 1..Len(category.skills)} :
                     LET words == split(lower(category.skills[kw[1]]))
                     IN  /\ Len(words) > 1
                         /\ Len(words[kw[2]]) > 3
                         /\ Contains(text, words[kw[2]])})

\* C14, as the specification states it: the score of every category is 3 per skill
\* name found in the text plus 1 per word longer than 3 characters, found in the text,
\* of a skill name of several words; a skill name of one word adds its 3 only.
C14_ScoreFormula ==
  Classified =>
    \A t \in {SeenText} : \A c \in 1..Len(categories) :
      CategoryScore(categories[c], t) = StatedScore(categories[c], t)

\* C14, where the code departs from it: for the description "Python" the skill Python,
\* a name of one word, adds 3 and 1, and Computer Science scores 4.
C14_Witness ==
  /\ Classified
  /\ cur.description = Text("Python") /\ cur.short_description = Text("")
  /\ CategoryScore(categories[1], SeenText) = 4
  /\ StatedScore(categories[1], SeenText) = 3

\* The scores of the categories for the text, in the order of the registry.
ScoresOf(text) == [c \in 1..Len(categories) |-> CategoryScore(categories[c], text)]

\* C15: the category detect_category gives has the highest score of all, and when that
\* score is above 0 every category declared before it scores less.
C15_HighestScoreFirstDeclared ==
  Classified =>
    \E t \in {SeenText} : \E s \in {[c \in DOMAIN ScoresOf(t) |-> ScoresOf(t)[c]]} :
      \E c \in 1..Len(categories) :
        /\ cur.category = categories[c]
        /\ \A d \in 1..Len(categories) : s[d] <= s[c]
        /\ s[c] > 0 => \A d \in 1..(c - 1) : s[d] < s[c]

\* C15, its case: Computer Science and a category declared after it share the highest
\* score, which is above 0, and Computer Science is the result.
C15_Witness ==
  /\ Classified
  /\ cur.category = categories[1]
  /\ \E t \in {SeenText} :
       /\ CategoryScore(categories[1], t) > 0
       /\ \E d \in 2..Len(categories) :
            CategoryScore(categories[d], t) = CategoryScore(categories[1], t)
       /\ \A d \in 2..Len(categories) :
            CategoryScore(categories[d], t) <= CategoryScore(categories[1], t)

\* The subcategories declared for the category of the row at hand.
SubcategoriesOfRow ==
  LET at == CHOOSE n \in 1..Len(sub_categories) : sub_categories[n].key = cur.category.name
  IN  sub_categories[at].value

\* How many keywords of the i-th of these subcategories are in the text.
HitsOf(subs, i, text) ==
  Cardinality({k \in 1..Len(subs[i].keywords) : Contains(text, subs[i].keywords[k])})

\* C16: the subcategories of a row are the names of the subcategories of its category
\* with a keyword in the lower-cased text, each once, those with more keywords found
\* first and, among equals, the one declared first; when no keyword is found they are
\* exactly "Introduction".
C16_SubcategoriesOrdered ==
  Classified =>
    \E t \in {SeenText}, subs \in {SubcategoriesOfRow} :
    \E hits \in {[i \in 1..Len(subs) |-> HitsOf(subs, i, t)]} :
    \E r \in {cur.detected_subcategories} :
      IF \A i \in 1..Len(subs) : hits[i] = 0
        THEN r = <<"Introduction">>
        ELSE /\ Len(r) = Cardinality({i \in 1..Len(subs) : hits[i] > 0})
             /\ \A p \in 1..Len(r) :
                  \E i \in 1..Len(subs) :
                    /\ r[p] = subs[i].name /\ hits[i] > 0
                    /\ p = 1 + Cardinality({j \in 1..Len(subs) :
                                              \/ hits[j] > hits[i]
                                              \/ hits[j] = hits[i] /\ j < i /\ hits[j] > 0})

\* C16, its case: the subcategory that comes first is declared after the one that comes
\* second, and has more keywords in the text.
C16_Witness ==
  /\ Classified
  /\ Len(cur.detected_subcategories) = 2
  /\ \E t \in {SeenText}, subs \in {SubcategoriesOfRow} :
       \E i, j \in 1..Len(subs) :
         /\ cur.detected_subcategories[1] = subs[i].name
         /\ cur.detected_subcategories[2] = subs[j].name
         /\ j < i
         /\ HitsOf(subs, i, t) > HitsOf(subs, j, t) /\ HitsOf(subs, j, t) > 0

\* C17: the skill of a row is the first skill of its category, in declared order, whose
\* lower-cased name is in the lower-cased description, and the first skill of the
\* category when there is none; it is a skill of that category.
C17_SkillOfCategory ==
  Classified =>
    \E d \in {lower(cur.description.text)}, skills \in {cur.category.skills} :
    \E found \in {{k \in 1..Len(skills) : Contains(d, lower(skills[k]))}} :
      /\ \E k \in 1..Len(skills) : cur.skill_name = skills[k]
      /\ found = {} => cur.skill_name = skills[1]
      /\ \A k \in found : (\A m \in found : k <= m) => cur.skill_name = skills[k]

\* C17, its case: the skill found is not the first of its category, and a skill of the
\* category that is in the about text only is passed over.
C17_Witness ==
  /\ Classified
  /\ cur.skill_name # cur.category.skills[1]
  /\ Contains(lower(cur.description.text), lower(cur.skill_name))
  /\ \E k \in 1..Len(cur.category.skills) :
       /\ cur.category.skills[k] # cur.skill_name
       /\ Contains(lower(cur.short_description.text), lower(cur.category.skills[k]))

\* The content of the answer is a JSON array of 4 or 5 strings.
ArrayOfTitles ==
  /\ response.kind = "ContentJson" /\ response.data = "list"
  /\ Len(response.items) \in 4..5

\* C18, as the specification states it: when the remote service answers and the
\* content is a JSON array of 4 to 5 title strings, generate_content_titles returns
\* those titles in their order.
C18_JsonArrayReturned ==
  (CallEnded /\ requests > 0 /\ ArrayOfTitles) =>
    /\ tpc = "done"
    /\ ret = Returned(PyList(response.items))

\* C18, where the code departs from it: the content is the array of five titles, the
\* arguments are strings, and the result is the fallback result, not the array.
C18_Witness ==
  /\ tpc = "done" /\ requests > 0 /\ StringArgs
  /\ ArrayOfTitles /\ response.items = FiveTitles
  /\ ret = FallbackOfCall
  /\ ret # Returned(PyList(FiveTitles))

\* A stripped line without its bullet or numbering, as lines 159-165 mean it.
Unbulleted(line) ==
  IF StartsWith(line, "-") \/ StartsWith(line, "*")
    THEN strip(SubSeq(line, 2, Len(line)))
  ELSE IF HasBulletPrefix(line) THEN strip(SubSeq(line, 3, Len(line)))
  ELSE line

\* The titles the specification finds in the lines from the i-th on.
RECURSIVE StatedLines(_, _)
StatedLines(lines, i) ==
  IF i > Len(lines) THEN <<>>
  ELSE (IF Unbulleted(strip(lines[i])) # "" THEN <<Unbulleted(strip(lines[i]))>> ELSE <<>>)
         \o StatedLines(lines, i + 1)

StatedTitlesOf(text) ==
  LET found == StatedLines(split_on(strip(text), "\n"), 1)
  IN  SubSeq(found, 1, Min(5, Len(found)))

\* C19, as the specification states it: when the content of the answer is no JSON,
\* every non-empty line, its leading "-", "*" or "1." to "5." removed, is a title, up
\* to 5 of them, and they are returned whenever there is one.
C19_LineExtraction ==
  (CallEnded /\ requests > 0 /\ response.kind = "ContentText") =>
    \E found \in {StatedTitlesOf(response.text)} :
      found # <<>> => (tpc = "done" /\ ret = Returned(PyList(found)))

\* C19, where the code departs from it: the content is four lines with a "-" each,
\* the arguments are strings, and the result is the fallback result, not the four
\* titles.
C19_Witness ==
  /\ tpc = "done" /\ requests > 0 /\ StringArgs
  /\ response = RawContent("- Getting Started\n- Core Ideas\n- Worked Examples\n- Going Further")
  /\ StatedTitlesOf(response.text) = SubSeq(FiveTitles, 1, 4)
  /\ ret = FallbackOfCall
  /\ ret # Returned(PyList(SubSeq(FiveTitles, 1, 4)))

\* The result has the shape of a template: as many entries as the template of the
\* main topic, 5 at most, each the entry of the template at its place or a
\* "<main topic>: ..." put in its place.
TemplateShaped ==
  /\ StringArgs
  /\ \E text \in {lower(call.lesson_title.text) \o " " \o lower(call.description.text)} :
     \E topic \in {identify_main_topic(text, call.category_name)} :
     \E template \in {DictGet(topic_templates, topic, DefaultTemplate)} :
       /\ ret.value.type = "list"
       /\ Len(ret.value.items) = Min(5, Len(template))
       /\ \A i \in 1..Len(ret.value.items) :
            \/ ret.value.items[i] = template[i]
            \/ StartsWith(ret.value.items[i], topic \o ": ")

\* C20: generate_content_titles returns 5 titles at most. After a request the result is
\* the first 5 entries of the "titles" list of a JSON object (the first 5 characters of
\* a "titles" string), or the first 5 non-empty lines of a content that is no JSON, or
\* it has the shape of a template; without a request it has the shape of a template.
C20_AtMostFive ==
  tpc = "done" =>
    /\ ret.exc = ""
    /\ Len(ret.value.items) <= 5 /\ Len(ret.value.s) <= 5
    /\ \/ /\ requests > 0 /\ WellFormedAnswer
          /\ ret = Returned(PyList(SubSeq(response.items, 1, Min(5, Len(response.items)))))
       \/ /\ requests > 0 /\ response.kind = "ContentJson" /\ response.data = "dict"
          /\ response.has_titles /\ response.titles_type = "str"
          /\ ret = Returned(PyStr(SubSeq(response.s, 1, Min(5, Len(response.s)))))
       \/ /\ requests > 0 /\ response.kind = "ContentText"
          /\ FirstLinesOf(response.text) # <<>>
          /\ ret = Returned(PyList(FirstLinesOf(response.text)))
       \/ TemplateShaped

\* C20, its case: the answer holds six titles, and the first five are returned.
C20_Witness ==
  /\ tpc = "done" /\ requests > 0
  /\ response = JsonTitles(SixTitles)
  /\ ret = Returned(PyList(FiveTitles))

\* A key is found for the calls of this run.
KeyFound == Truthy(get_api_key(environ, secret_file).key)

\* C21, as the specification states it: every row posts one request at most; with a key
\* every row that was processed posted its own; a request that fails leaves the row
\* with the fallback titles and the run going, so that the later rows are attempted;
\* and the result of a row is the result of its own call for its own answer.
C21_OneRequestPerRow ==
  /\ requests <= index + (IF pc \in {"titles", "failed"} THEN 1 ELSE 0)
  /\ (KeyFound /\ pc \in {"loop", "save", "done"}) => requests = index
  /\ (pc \in {"titles", "failed"} /\ CallEnded /\ RequestFailed) =>
       /\ tpc = "done" /\ pc # "failed"
       /\ ret = generate_fallback_content_titles(
                  call.lesson_title, call.description, call.category_name)
  /\ (pc = "titles" /\ tpc = "done" /\ response # NoResponse) =>
       ret = generate_content_titles_request(
               response, call.lesson_title, call.description, call.category_name)

\* C21, where the code departs from it: the request of the first of two rows timed out,
\* the title of the row is NaN, the fallback raised, and the run ended with the second
\* row never attempted.
C21_Witness ==
  /\ pc = "failed" /\ tpc = "raised"
  /\ KeyFound /\ requests = 1 /\ response = Outcome("Timeout")
  /\ index = 0 /\ Len(df) = 2
  /\ call.lesson_title = NaN

\* C22: the output file is written once at most, and by a run that has processed every
\* row: until then it is what the run found (no file, or the file of an earlier run);
\* a run that fails, at reading the input or at a row, has written nothing; a run that
\* completes has written once, and the file holds the rows of this run, one per input
\* row in input order, and nothing of the earlier file.
C22_WrittenOnceAtEnd ==
  /\ writes <= 1
  /\ writes = 0 => catalog \in {NoFile, OldCatalog}
  /\ pc = "failed" => writes = 0
  /\ pc = "done" => writes = 1
  /\ writes = 1 =>
       /\ pc = "done" /\ csv.exists /\ df = csv.rows /\ index = Len(df)
       /\ catalog.exists /\ catalog.columns = output_df.columns
       /\ catalog.rows = output_df.rows
       /\ Len(catalog.rows) = Len(csv.rows)
       /\ \A i \in 1..Len(catalog.rows) :
            /\ catalog.rows[i][2] = csv.rows[i].Name
            /\ catalog.rows[i] # OldCatalog.rows[1]

\* C22, its case: the second of two rows raised, after the first was put in the table;
\* the run has failed and the file of the earlier run is as it was.
C22_Witness ==
  /\ pc = "failed" /\ tpc = "raised"
  /\ Len(df) = 2 /\ index = 1 /\ Len(output_df.rows) = 1
  /\ catalog = OldCatalog /\ writes = 0

\* The category detect_category gives each row an input can hold, computed once.
CategoryOfBatchRow ==
  [row \in BatchRows |->
     detect_category(OrEmpty(row.Description), OrEmpty(row.About))]

\* The category detect_category gives the i-th row of the input.
CategoryOfRow(i) == CategoryOfBatchRow[df[i]]

\* C23: the rows of the output table are the rows of the input done so far, in input
\* order and each complete before the next is begun; generate_content_titles runs for
\* a row after its classification, with the title of that row and the name of the
\* category detect_category gave that row; and categoryId and catName of a row are the
\* id and the name of that same entry of the registry.
C23_RowOrderAndCategory ==
  /\ Len(output_df.rows) = index
  /\ tpc # "idle" => pc \in {"titles", "failed"} /\ index < Len(df)
  /\ (pc = "titles" /\ tpc # "idle") =>
       \E category \in {CategoryOfRow(index + 1)} :
         /\ cur.category = category
         /\ call.category_name = category.name
         /\ call.lesson_title = df[index + 1].Name
  /\ \A i \in 1..Len(output_df.rows) :
       \E category \in {CategoryOfRow(i)}, row \in {output_df.rows[i]} :
         /\ row[2] = df[i].Name
         /\ row[6] = category.id /\ row[7] = category.name
         /\ \E c \in 1..Len(categories) : categories[c] = category

\* C23, its case: two rows of different categories; the first is in the table with its
\* own category, and the call for the second has the name of the second's.
C23_Witness ==
  /\ pc = "titles" /\ tpc = "done" /\ index = 1
  /\ output_df.rows[1][7] = "Data Analysis & Statistics"
  /\ call.category_name = "Computer Science"
  /\ output_df.rows[1][2] # call.lesson_title

\* The fallback ran in the call at hand: no request was posted, or the request failed.
FallbackRan == response = NoResponse \/ RequestFailed

\* The titles for the arguments on the templates as they are declared.
DeclaredTitles(lesson_title, description, category_name) ==
  LET text == lower(lesson_title) \o " " \o lower(description)
      topic == identify_main_topic(text, category_name)
      subtopics == identify_subtopics(text, topic)
      template == DictGet(topic_templates, topic, DefaultTemplate)
      used == Min(4, Len(subtopics))
  IN  SubSeq([i \in 1..Len(template) |->
                IF i <= used THEN topic \o ": " \o title(subtopics[i]) ELSE template[i]],
             1, Min(5, Len(template)))

\* C24: whatever the calls before it, a call of the fallback returns the titles its
\* arguments have on the templates as they are declared; and in a run without a key,
\* rows of the same title, description and category have the same titles.
C24_NoSharedTemplates ==
  /\ (pc = "titles" /\ tpc = "done" /\ FallbackRan) =>
       ret = Returned(PyList(DeclaredTitles(call.lesson_title.text, call.description.text,
                                            call.category_name)))
  /\ ~KeyFound =>
       \A i, j \in 1..Len(output_df.rows) :
         \E a \in {output_df.rows[i]}, b \in {output_df.rows[j]} :
           (a[2] = b[2] /\ a[16] = b[16] /\ a[7] = b[7]) => a[3] = b[3]

\* C24, its case: the call for the first row put two subtopics in place of the first
\* entries of the template of Chinese, and the call for the second row, which has no
\* subtopic, returns the template as it is declared.
C24_Witness ==
  /\ pc = "titles" /\ tpc = "done" /\ FallbackRan /\ index = 1
  /\ output_df.rows[1][3].items[1] = "chinese: Grammar"
  /\ output_df.rows[1][3].items[2] = "chinese: Writing"
  /\ call.lesson_title = Text("Beginner Mandarin Chinese Course")
  /\ ret.value.items = DictGet(topic_templates, "chinese", <<>>)
  /\ ret.value.items[1] = "Introduction to Mandarin Chinese"

\* The lower-cased title and description of the call, as the fallback joins them.
CombinedText == lower(call.lesson_title.text) \o " " \o lower(call.description.text)

\* The titles for the text when the main topic is topic.
TitlesOfTopic(text, topic) ==
  generate_titles_for_topic(topic, identify_subtopics(text, topic))

\* The main topic that keyword analysis gives: the first declared language with a
\* keyword in the text; or the topic of the first declared keyword of the category
\* that is in the text; or the category name, "General" when it is empty.
KeywordTopic(text, category_name) ==
  LET languages == LanguagesIn(text)
      keywords == DictGet(topic_keywords, category_name, <<>>)
      found == {k \in 1..Len(keywords) : Contains(text, keywords[k][1])}
  IN  IF languages # {}
        THEN language_keywords[CHOOSE i \in languages : \A j \in languages : i <= j].key
      ELSE IF found # {}
        THEN keywords[CHOOSE k \in found : \A j \in found : k <= j][2]
      ELSE IF category_name # "" THEN category_name ELSE "General"

\* C25, amended: in the deterministic strategy the main topic used to pick and fill
\* the template is found by keyword analysis of the lower-cased title and description
\* together, nothing stripped: it is the first declared language with a keyword in that
\* text, otherwise the topic of the first declared topic keyword of the category name
\* that is in the text, otherwise the category name ("General" when it is empty).
C25_MainTopicByKeywords ==
  (tpc = "done" /\ StringArgs /\ Deterministic) =>
    \E text \in {CombinedText} :
    \E topic \in {KeywordTopic(text, call.category_name)} :
      ret = Returned(PyList(TitlesOfTopic(text, topic)))

\* C25, its case: the title has a numeric marker, an aside in parentheses and a colon;
\* the keyword "python" after the colon gives the main topic Python, whose template is
\* filled with the subtopics of the description.
C25_Witness ==
  /\ tpc = "done" /\ Deterministic
  /\ call.lesson_title = Text("Foundations 101 (Self-Paced): Python Basics")
  /\ call.description = Text("Learn variables, loops, and functions")
  /\ call.category_name = "Computer Science"
  /\ \E text \in {CombinedText} : KeywordTopic(text, call.category_name) = "Python"
  /\ ret.value.items[1] = "Python: Variables"
  /\ ret.value.items[5] = "Python Object-Oriented Programming"

\* The text before the first colon.
BeforeColon(s) ==
  LET colons == {i \in 1..Len(s) : CharAt(s, i) = ":"}
  IN  IF colons = {} THEN s
      ELSE SubSeq(s, 1, (CHOOSE i \in colons : \A j \in colons : i <= j) - 1)

\* The text outside parentheses, from the i-th character on.
RECURSIVE OutsideParens(_, _, _)
OutsideParens(s, i, depth) ==
  IF i > Len(s) THEN ""
  ELSE IF CharAt(s, i) = "(" THEN OutsideParens(s, i + 1, depth + 1)
  ELSE IF CharAt(s, i) = ")" THEN OutsideParens(s, i + 1, IF depth > 0 THEN depth - 1 ELSE 0)
  ELSE (IF depth = 0 THEN CharAt(s, i) ELSE "") \o OutsideParens(s, i + 1, depth)

\* A word that marks a level or a number.
IsMarker(word) ==
  \/ \A i \in 1..Len(word) : CharAt(word, i) \in Chars("0123456789")
  \/ lower(word) \in {"beginner", "intermediate", "advanced", "level"}

RECURSIVE JoinUnmarked(_, _)
JoinUnmarked(words, i) ==
  IF i > Len(words) THEN ""
  ELSE IF IsMarker(words[i]) THEN JoinUnmarked(words, i + 1)
  ELSE LET rest == JoinUnmarked(words, i + 1)
       IN  IF rest = "" THEN words[i] ELSE words[i] \o " " \o rest

\* The title without asides in parentheses, without what follows a colon, and without
\* level and numeric markers.
CleanedTitle(lesson_title) ==
  JoinUnmarked(split(BeforeColon(OutsideParens(lesson_title, 1, 0))), 1)

\* The main topics the specification allows for a title: what follows "introduction
\* to" in the cleaned title, or else its last word or its last two words; lower-cased.
StatedMainTopics(lesson_title) ==
  LET cleaned == lower(CleanedTitle(lesson_title))
      words == split(cleaned)
      at == {i \in 1..Len(cleaned) : StartsWith(SubSeq(cleaned, i, Len(cleaned)),
                                                "introduction to")}
  IN  IF at # {}
        THEN {strip(SubSeq(cleaned, (CHOOSE i \in at : \A j \in at : i <= j) + 15,
                           Len(cleaned)))}
      ELSE IF Len(words) = 0 THEN {}
      ELSE {words[Len(words)]}
             \cup (IF Len(words) >= 2
                     THEN {words[Len(words) - 1] \o " " \o words[Len(words)]}
                     ELSE {})

\* C25, as the specification states it: in the deterministic strategy, for a title that
\* has a word left when it is cleaned, the main topic that picks and fills the template
\* is one the specification allows for the title, in lower case or in title case.
C25_Original ==
  (tpc = "done" /\ StringArgs /\ Deterministic
     /\ CleanedTitle(call.lesson_title.text) # "") =>
    \E text \in {CombinedText} :
    \E stated \in StatedMainTopics(call.lesson_title.text) :
      \E topic \in {stated, title(stated)} :
        ret = Returned(PyList(TitlesOfTopic(text, topic)))

\* C26: in the deterministic strategy, with k subtopic patterns of the main topic in
\* the text, the result has exactly 5 entries: entry i, for i up to min(k, 4), is
\* "<main topic>: <the i-th of these patterns, in declared order, in title case>", and
\* every other entry, the 5th always, is the entry of the template at its place; with
\* no pattern in the text the result is the template.
C26_SubtopicsFillTemplate ==
  (tpc = "done" /\ StringArgs /\ Deterministic) =>
    \E text \in {CombinedText} :
    \E topic \in {identify_main_topic(text, call.category_name)} :
    \E template \in {DictGet(topic_templates, topic, DefaultTemplate)},
       patterns \in {DictGet(subtopic_patterns, topic, <<>>)} :
    \E found \in {{p \in 1..Len(patterns) : Contains(text, patterns[p])}} :
      /\ Len(template) = 5
      /\ ret.exc = "" /\ ret.value.type = "list" /\ Len(ret.value.items) = 5
      /\ \A i \in 1..5 :
           IF i <= Min(Cardinality(found), 4)
             THEN \E p \in found :
                    /\ Cardinality({q \in found : q < p}) = i - 1
                    /\ ret.value.items[i] = topic \o ": " \o title(patterns[p])
             ELSE ret.value.items[i] = template[i]
      /\ found = {} => ret.value.items = template

\* C26, its case: five patterns of the main topic or more are in the text; four
\* entries are replaced, and the 5th is the entry of the template.
C26_Witness ==
  /\ tpc = "done" /\ StringArgs /\ Deterministic
  /\ \E text \in {CombinedText} :
     \E topic \in {identify_main_topic(text, call.category_name)} :
     \E patterns \in {DictGet(subtopic_patterns, topic, <<>>)} :
       /\ Cardinality({p \in 1..Len(patterns) : Contains(text, patterns[p])}) >= 5
       /\ StartsWith(ret.value.items[4], topic \o ": ")
       /\ ret.value.items[5] = DictGet(topic_templates, topic, DefaultTemplate)[5]

=============================================================================
